---- MODULE Spec2Model ----
(***************************************************************************)
(* Model of the ESLint language-service plugin: the diagnostic overlay and *)
(* fix-synthesis engine of src/plugin.ts and the replacement resolver of   *)
(* src/runner/failures.ts.                                                 *)
(*                                                                         *)
(* Requests are handled one at a time and run to completion (the host is   *)
(* single threaded), so every handler is one action.  Each action records  *)
(* the request it served in `request` and what the host got back in        *)
(* `response`.                                                             *)
(*                                                                         *)
(* Encodings.  A string the code inspects (file names, rule ids, fix ids)  *)
(* is a sequence of one-character strings, so that startsWith, endsWith    *)
(* and replace are computed.  An optional value is <<>> (absent) or <<v>>. *)
(* A call that can throw returns a record with a `threw` field.            *)
(*                                                                         *)
(* Specifications.  Spec is the plugin from construction, serving all      *)
(* requests over both files.  SpecFixes starts after a first diagnostics   *)
(* request over a wider set of findings and serves the fix requests.       *)
(* SpecResolver applies getNonOverlappingReplacements to lists of findings.*)
(* SpecFilter applies filterProblemsForFile to lint reports.  SpecRunner   *)
(* calls runEsLint of src/runner/index.ts on one EsLintRunner; in Spec the *)
(* outcome of the runner is an input of the diagnostics request.           *)
(***************************************************************************)
EXTENDS Integers, Sequences, FiniteSets, TLC

VARIABLES
    config,          \* ConfigurationManager.config, the fields the overlay reads
    codeFixActions,  \* ESLintPlugin.codeFixActions: Map<fileName, ProblemMap>
    request,         \* the request the last action served
    response,        \* what that request returned (or that it threw)
    runner,          \* EsLintRunner: its three caches
    process          \* the process-wide state the runner touches: cwd, console.warn

vars == <<config, codeFixActions, request, response, runner, process>>

\* new MruCache(maxSize): the entries from the least to the most recently
\* used one.
NewMruCache(maxSize) == [maxSize |-> maxSize, entries |-> <<>>]

\* The size document2LibraryCache is built with.
DocumentCacheCapacity == 100

\* A runner whose cache is built one entry too large.
NewRunnerWithLargerCache ==
    [document2LibraryCache |-> NewMruCache(DocumentCacheCapacity + 1),
     eslintPath2Library |-> <<>>, globalPackageManagerPath |-> <<>>]

\* new EsLintRunner(trace): the cache and the two maps are empty.
NewRunner ==
    [document2LibraryCache |-> NewMruCache(DocumentCacheCapacity), eslintPath2Library |-> <<>>,
     globalPackageManagerPath |-> <<>>]

\* The process before any run: the host's working directory and the
\* console.warn the runtime provides.
HomeDirectory == <<"/", "h">>
\* runs counts the runEsLint calls the trace function has logged.
\* The typescript module the host hands to init: its version (the major
\* number) and what ts.getSupportedCodeFixes() returns beyond the host's own
\* codes.
TypeScriptModule == [major |-> 3, supportedCodeFixes |-> <<>>]

ProcessAtStart ==
    [cwd |-> HomeDirectory, consoleWarn |-> "console.warn", runs |-> 0,
     typescript |-> TypeScriptModule]

----------------------------------------------------------------------------
(* Bounds of the model.                                                    *)

\* Messages in one lint report of Spec.
MaxMessages == 1
\* Messages in the lint report that builds the Registry of SpecFixes.
MaxFixMessages == 2
\* Findings handed to getNonOverlappingReplacements in SpecResolver.
MaxFailures == 2
\* Largest text offset of a replacement range in SpecResolver.
MaxOffset == 3
\* Largest number of results in a lint report of SpecFilter.
MaxResults == 2
\* Largest number of runEsLint calls on the runner of SpecRunner.
MaxRuns == 2

----------------------------------------------------------------------------
(* Strings and optional values.                                            *)

None == <<>>
Some(v) == <<v>>
IsSome(o) == Len(o) = 1
Val(o) == o[1]

StartsWith(s, p) == Len(s) >= Len(p) /\ SubSeq(s, 1, Len(p)) = p
EndsWith(s, p) == Len(s) >= Len(p) /\ SubSeq(s, Len(s) - Len(p) + 1, Len(s)) = p

RECURSIVE SeqToSet(_)
SeqToSet(s) == IF s = <<>> THEN {} ELSE {Head(s)} \cup SeqToSet(Tail(s))

\* All sequences over S of length at most n.
SeqsUpTo(S, n) == UNION {[1..k -> S] : k \in 0..n}

----------------------------------------------------------------------------
(* Files and their text.                                                   *)

FileTs == <<"a", ".", "t", "s">>
FileDts == <<"a", ".", "d", ".", "t", "s">>
Files == {FileTs, FileDts}

DtsSuffix == <<".", "d", ".", "t", "s">>

\* The snapshot of every file: two lines, the second one indented.
SourceText == <<"a", "b", "\n", " ", "c", "d">>

\* ts.SourceFile.getLineStarts(): 0-based offsets of the first character of
\* each line (text with "\n" line breaks).
GetLineStarts(text) ==
    LET RECURSIVE Scan(_)
        Scan(i) == IF i > Len(text) THEN <<>>
                   ELSE (IF text[i] = "\n" THEN <<i>> ELSE <<>>) \o Scan(i + 1)
    IN  <<0>> \o Scan(1)

SourceLineStarts == GetLineStarts(SourceText)

\* A ts.SourceFile: its name, its text and the line-start table the
\* compiler computes once per file.
SourceFile(fileName) ==
    [fileName |-> fileName, text |-> SourceText, lineStarts |-> SourceLineStarts,
     end |-> Len(SourceText)]

\* ts.SourceFile.getLineEndOfPosition(pos): the offset of the line break that
\* ends the line holding pos, or the end of the text on the last line.
GetLineEndOfPosition(file, pos) ==
    LET lineStarts == file.lineStarts
        line == CHOOSE i \in 1..Len(lineStarts) :
                    /\ lineStarts[i] <= pos
                    /\ i = Len(lineStarts) \/ pos < lineStarts[i + 1]
    IN  IF line = Len(lineStarts) THEN file.end ELSE lineStarts[line + 1] - 1

\* ts.SourceFile.getPositionOfLineAndCharacter(line, character), 0-based.
GetPositionOfLineAndCharacter(file, line, character) ==
    file.lineStarts[line + 1] + character

----------------------------------------------------------------------------
(* Findings (eslint.Linter.LintMessage) and their fixes.                   *)

RuleSemi == <<"s", "e", "m", "i">>
RuleQuotes == <<"q", "u", "o", "t", "e", "s">>

\* One replacement: eslint.Rule.Fix, {range: [start, end], text}.
Rep(s, e) == [range |-> <<s, e>>, text |-> "x"]

\* failure.fix: absent, one replacement object, or a list of replacements.
NoFix == [kind |-> "none", reps |-> <<>>]
ObjectFix(s, e) == [kind |-> "object", reps |-> <<Rep(s, e)>>]
ArrayFix(reps) == [kind |-> "array", reps |-> reps]

\* `if (fix)`: an object and a list (even an empty one) are truthy.
FixIsTruthy(fix) == fix.kind # "none"

\* line and endLine: 0 stands for 0 and for an absent value (both falsy).
Finding(ruleId, line, column, endLine, endColumn, fix) ==
    [ruleId |-> ruleId, message |-> "m", severity |-> 2,
     line |-> line, column |-> column,
     endLine |-> endLine, endColumn |-> endColumn, fix |-> fix]

\* `failure.ruleId` as a condition: null and "" are falsy.
RuleIdIsTruthy(ruleId) == IsSome(ruleId) /\ Val(ruleId) # <<>>

----------------------------------------------------------------------------
(* src/runner/failures.ts                                                  *)

GetReplacements(fix) ==
    IF ~FixIsTruthy(fix) THEN <<>>
    ELSE IF fix.kind = "array" THEN fix.reps
    ELSE <<fix.reps[1]>>

\* getReplacement(failure, 0).range[0] throws when there is no replacement.
HasFirstReplacement(failure) == GetReplacements(failure.fix) # <<>>
FirstStart(failure) == GetReplacements(failure.fix)[1].range[1]

\* A resolver that forgets to sort.
SortFailuresSkipped(failures) == failures

\* Array.prototype.sort with the comparator of sortFailures: ascending by the
\* start of the first replacement, stable (equal keys keep their order).
SortFailures(failures) ==
    LET RECURSIVE Insert(_, _)
        Insert(x, sorted) ==
            IF sorted = <<>> THEN <<x>>
            ELSE IF FirstStart(Head(sorted)) <= FirstStart(x)
                 THEN <<Head(sorted)>> \o Insert(x, Tail(sorted))
                 ELSE <<x>> \o sorted
        RECURSIVE Sort(_, _)
        Sort(rest, sorted) ==
            IF rest = <<>> THEN sorted
            ELSE Sort(Tail(rest), Insert(Head(rest), sorted))
    IN  Sort(failures, <<>>)

\* Variants of overlaps: one lets touching replacements through, one compares
\* a replacement with itself.
OverlapsStrict(a, b) == a.range[2] > b.range[1]
OverlapsSelf(a, b) == a.range[2] >= a.range[1]

\* A test that also rejects a replacement starting one past the end.
OverlapsOnePast(a, b) == a.range[2] + 1 >= b.range[1]

Overlaps(a, b) == a.range[2] >= b.range[1]

\* The loop of getNonOverlappingReplacements over the sorted failures, from
\* index i (1-based).  acc.replacements is nonOverlapping; acc.kept lists the
\* indices of the failures whose replacements were pushed.
RECURSIVE NonOverlappingFrom(_, _, _)
NonOverlappingFrom(sorted, i, acc) ==
    IF i > Len(sorted) THEN acc
    ELSE LET replacements == GetReplacements(sorted[i].fix)
             nonOverlapping == acc.replacements
         IN  IF i = 1 \/ ~Overlaps(nonOverlapping[Len(nonOverlapping)], replacements[1])
             THEN NonOverlappingFrom(sorted, i + 1,
                      [replacements |-> nonOverlapping \o replacements,
                       kept |-> Append(acc.kept, i)])
             ELSE NonOverlappingFrom(sorted, i + 1, acc)

\* getNonOverlappingReplacements(failures).  With two or more failures the
\* comparator reads the first replacement of each, and the loop reads the
\* first replacement of every failure after the first: a failure without a
\* replacement makes it throw a TypeError.  `sorted` and `kept` expose which
\* failures own the returned replacements.
GetNonOverlappingReplacements(failures) ==
    IF Len(failures) >= 2 /\ \E i \in 1..Len(failures) : ~HasFirstReplacement(failures[i])
    THEN [threw |-> TRUE, replacements |-> <<>>, sorted |-> <<>>, kept |-> <<>>]
    ELSE LET sortedFailures == SortFailures(failures)
             out == NonOverlappingFrom(sortedFailures, 1,
                                       [replacements |-> <<>>, kept |-> <<>>])
         IN  [threw |-> FALSE, replacements |-> out.replacements,
              sorted |-> sortedFailures, kept |-> out.kept]

\* path.normalize on the paths of the model: a leading "./" is dropped and
\* repeated separators collapse.
RECURSIVE Normalize(_)
Normalize(path) ==
    IF Len(path) >= 2 /\ path[1] = "." /\ path[2] = "/" THEN Normalize(SubSeq(path, 3, Len(path)))
    ELSE IF \E i \in 1..(Len(path) - 1) : path[i] = "/" /\ path[i + 1] = "/"
         THEN LET i == CHOOSE k \in 1..(Len(path) - 1) : path[k] = "/" /\ path[k + 1] = "/"
              IN  Normalize(SubSeq(path, 1, i) \o SubSeq(path, i + 2, Len(path)))
         ELSE path

\* A filter that compares the paths as written.
RECURSIVE FilterProblemsExactPath(_, _)
FilterProblemsExactPath(filePath, results) ==
    IF results = <<>> THEN <<>>
    ELSE LET result == Head(results)
             rest == FilterProblemsExactPath(filePath, Tail(results))
         IN  IF result.filePath = <<>> THEN rest
             ELSE IF result.filePath = filePath
                  THEN result.messages \o rest
                  ELSE rest

\* filterProblemsForFile(filePath, report): the messages of the results whose
\* normalized path is the normalized requested path, in report order.
RECURSIVE FilterProblemsForFile(_, _)
FilterProblemsForFile(filePath, results) ==
    IF results = <<>> THEN <<>>
    ELSE LET result == Head(results)
             rest == FilterProblemsForFile(filePath, Tail(results))
         IN  IF result.filePath = <<>> THEN rest
             ELSE IF Normalize(result.filePath) = Normalize(filePath)
                  THEN result.messages \o rest
                  ELSE rest

----------------------------------------------------------------------------
(* src/plugin.ts: EsLintFixId and ProblemMap.                              *)

EslintPrefix == <<"e", "s", "l", "i", "n", "t", ":">>

\* A fix id is any value: a string (its characters) or something else.
StringId(chars) == [isString |-> TRUE, chars |-> chars]
ObjectId == [isString |-> FALSE, chars |-> <<>>]

\* `${failure.ruleId}`: null prints as "null".
RuleIdToString(ruleId) == IF IsSome(ruleId) THEN Val(ruleId) ELSE <<"n", "u", "l", "l">>

\* EsLintFixId.fromFailure
FromFailure(failure) == StringId(EslintPrefix \o RuleIdToString(failure.ruleId))

\* EsLintFixId.toRuleName: None is undefined.
ToRuleName(fixId) ==
    IF ~fixId.isString \/ ~StartsWith(fixId.chars, EslintPrefix) THEN None
    ELSE Some(SubSeq(fixId.chars, Len(EslintPrefix) + 1, Len(fixId.chars)))

\* ProblemMap.key: `[${start},${end}]`
Key(start, end) == <<"[", start, ",", end, "]">>

\* A ProblemMap is a JavaScript Map: its entries in insertion order.
EmptyProblemMap == <<>>

PMIndex(pm, k) == {i \in 1..Len(pm) : pm[i].key = k}

\* A lookup that matches on the start of the span alone.
PMGetByStart(pm, start, end) ==
    LET hit == {i \in 1..Len(pm) : pm[i].key[2] = start}
    IN  IF hit = {} THEN None ELSE Some(pm[CHOOSE i \in hit : TRUE].problem)

\* ProblemMap.get: None is undefined.
PMGet(pm, start, end) ==
    LET hit == PMIndex(pm, Key(start, end))
    IN  IF hit = {} THEN None ELSE Some(pm[CHOOSE i \in hit : TRUE].problem)

\* ProblemMap.set: a known key keeps its place and gets the new value.
PMSet(pm, start, end, problem) ==
    LET k == Key(start, end)
        hit == PMIndex(pm, k)
    IN  IF hit = {} THEN Append(pm, [key |-> k, problem |-> problem])
        ELSE [pm EXCEPT ![CHOOSE i \in hit : TRUE].problem = problem]

\* ProblemMap.values
PMValues(pm) == [i \in 1..Len(pm) |-> pm[i].problem]

----------------------------------------------------------------------------
(* src/plugin.ts: position mapping, diagnostics and Problems.              *)

\* A file of three lines, the second one empty.
FileLines == <<"b", ".", "t", "s">>
ThreeLineText == <<"a", "\n", "\n", "b">>

\* The ts.SourceFile of a file with the given text.
SourceFileWithText(fileName, text) ==
    [fileName |-> fileName, text |-> text, lineStarts |-> GetLineStarts(text),
     end |-> Len(text)]

\* The name under which the host asks about a.ts where file names are
\* compared without regard to case: the program finds its source file by
\* the canonical path, and the source file keeps the name it was added with.
FileAsOpened == <<"A", ".", "t", "s">>

\* program.getSourceFile(fileName): the host has a source file for every file
\* it asks about (the code asserts it with `!`), named as the host names it,
\* or as the program first named it for FileAsOpened.
GetSourceFile(fileName) ==
    IF fileName = FileLines THEN SourceFileWithText(fileName, ThreeLineText)
    ELSE IF fileName = FileAsOpened THEN SourceFile(FileTs)
    ELSE SourceFile(fileName)

\* A resolver that takes the 1-based column for a 0-based character.
PositionResolverKeepsColumn(file, line, column) ==
    IF line # 0
    THEN LET lineStarts == file.lineStarts
         IN  IF line > Len(lineStarts)
             THEN Some(GetLineEndOfPosition(file, lineStarts[Len(lineStarts)]))
             ELSE LET lineStart == lineStarts[line]
                      lineEnd == GetLineEndOfPosition(file, lineStart)
                  IN  IF ~IsSome(column) THEN Some(lineEnd)
                      ELSE IF Val(column) <= lineEnd - lineStart
                           THEN Some(GetPositionOfLineAndCharacter(file, line - 1, Val(column)))
                           ELSE Some(lineEnd)
    ELSE None

\* positionResolver of getTextSpan: None is null.
PositionResolver(file, line, column) ==
    IF line # 0
    THEN LET lineStarts == file.lineStarts
         IN  IF line > Len(lineStarts)
             THEN Some(GetLineEndOfPosition(file, lineStarts[Len(lineStarts)]))
             ELSE LET lineStart == lineStarts[line]
                      lineEnd == GetLineEndOfPosition(file, lineStart)
                  IN  IF ~IsSome(column) THEN Some(lineEnd)
                      ELSE IF Val(column) - 1 <= lineEnd - lineStart
                           THEN Some(GetPositionOfLineAndCharacter(file, line - 1, Val(column) - 1))
                           ELSE Some(lineEnd)
    ELSE None

GetTextSpan(file, lintMessage) ==
    LET s == PositionResolver(file, lintMessage.line, lintMessage.column)
        start == IF IsSome(s) THEN Val(s) ELSE 0
        e == PositionResolver(file, lintMessage.endLine, lintMessage.endColumn)
        end == IF IsSome(e) THEN Val(e) ELSE start
    IN  [start |-> start, length |-> end - start, end |-> end]

\* A category that takes an unset option for false.
GetDiagnosticCategoryUnsetIsFalse(cfg, failure) ==
    IF cfg.alwaysShowRuleFailuresAsWarnings = Some(TRUE)
    THEN "Warning"
    ELSE IF failure.severity # 0 /\ failure.severity = 2 THEN "Error"
    ELSE "Warning"

\* config.alwaysShowRuleFailuresAsWarnings is true, false or undefined (None).
GetDiagnosticCategory(cfg, failure) ==
    IF cfg.alwaysShowRuleFailuresAsWarnings = Some(TRUE)
       \/ cfg.alwaysShowRuleFailuresAsWarnings = None
    THEN "Warning"
    ELSE IF failure.severity # 0 /\ failure.severity = 2 THEN "Error"
    ELSE "Warning"

\* A diagnostic.  messageText holds the message and, for `${message} (${ruleId})`,
\* the rule id.
Diagnostic(source, start, length, category, message, ruleId) ==
    [source |-> source, start |-> start, length |-> length,
     category |-> category, messageText |-> <<message, ruleId>>]

MakeDiagnostic(cfg, failure, file) ==
    LET span == GetTextSpan(file, failure)
    IN  Diagnostic("eslint", span.start, span.length,
                   GetDiagnosticCategory(cfg, failure), failure.message, failure.ruleId)

\* The synthetic diagnostic of one runner warning.
WarningDiagnostic(warning) == Diagnostic("eslint", 0, 1, "Warning", warning, None)

ReplacementsAreEmpty(fix) == IF fix.kind = "array" THEN Len(fix.reps) = 0 ELSE FALSE

\* A test that takes every fix, an empty list too, for a fix.
IsFixableWithAnyFix(failure) == FixIsTruthy(failure.fix)

IsFixable(failure) == FixIsTruthy(failure.fix) /\ ~ReplacementsAreEmpty(failure.fix)

\* The Problem recordCodeAction stores for a failure.
ProblemOf(failure) == [failure |-> failure, fixable |-> IsFixable(failure)]

\* Map.has / Map.get / Map.set / Map.delete of codeFixActions, a function
\* from the file names that have an entry to their ProblemMap.
HasRegistry(cfa, fileName) == fileName \in DOMAIN cfa
SetRegistry(cfa, fileName, pm) ==
    [g \in DOMAIN cfa \cup {fileName} |-> IF g = fileName THEN pm ELSE cfa[g]]
DeleteRegistry(cfa, fileName) == [g \in DOMAIN cfa \ {fileName} |-> cfa[g]]

\* recordCodeAction(failure, file)
RecordCodeAction(cfa, failure, file) ==
    LET key == file.fileName
        documentAutoFixes == IF HasRegistry(cfa, key) THEN cfa[key] ELSE EmptyProblemMap
        span == GetTextSpan(file, failure)
    IN  SetRegistry(cfa, key, PMSet(documentAutoFixes, span.start, span.end, ProblemOf(failure)))

\* The first statements of the try block of getSemanticDiagnostics: the
\* Registry of the file is dropped.
\* A diagnostics pass that keeps the Registry it finds.
KeepRegistry(cfa, fileName) == cfa

ClearRegistry(cfa, fileName) ==
    IF HasRegistry(cfa, fileName) THEN DeleteRegistry(cfa, fileName) ELSE cfa

\* The short circuit of getSemanticDiagnostics.
\* A suppression check that never short-circuits.
SuppressNever(cfg, diagnostics) == FALSE

SuppressDiagnostics(cfg, diagnostics) ==
    Len(diagnostics) > 0 /\ cfg.suppressWhileTypeErrorsPresent

\* `config.ignoreDefinitionFiles && fileName.endsWith(".d.ts")`
SkipDefinitionFile(cfg, fileName) ==
    cfg.ignoreDefinitionFiles /\ EndsWith(fileName, DtsSuffix)

\* The warnings of a successful run, unshifted one by one onto the
\* diagnostics when a lint configuration file exists.
\* A loop that stops after the first warning.
UnshiftFirstWarningOnly(warnings, diagnostics) ==
    IF warnings = <<>> THEN diagnostics
    ELSE <<[source |-> "eslint", start |-> 0, length |-> 1, category |-> "Warning",
            messageText |-> <<Head(warnings), <<>>>>]>> \o diagnostics

RECURSIVE UnshiftWarnings(_, _)
UnshiftWarnings(warnings, diagnostics) ==
    IF warnings = <<>> THEN diagnostics
    ELSE UnshiftWarnings(Tail(warnings), <<WarningDiagnostic(Head(warnings))>> \o diagnostics)

\* The loop over eslintProblems: acc is [cfa, diagnostics, registered].
RECURSIVE RecordProblems(_, _, _, _)
RecordProblems(cfg, file, eslintProblems, acc) ==
    IF eslintProblems = <<>> THEN acc
    ELSE LET problem == Head(eslintProblems)
         IN  RecordProblems(cfg, file, Tail(eslintProblems),
                 [cfa |-> RecordCodeAction(acc.cfa, problem, file),
                  diagnostics |-> Append(acc.diagnostics, MakeDiagnostic(cfg, problem, file)),
                  registered |-> Append(acc.registered, ProblemOf(problem))])

\* A catch block that returns no diagnostics.
RunnerFailureDropsHost(diagnostics) == <<>>

\* What the catch block of the runner call returns.
RunnerFailureResult(diagnostics) == diagnostics

\* A handler that takes a file with a Registry as already linted and hands
\* back the delegate's diagnostics without running the analyzer again.
GetSemanticDiagnosticsOncePerFile(cfg, cfa, fileName, host, run) ==
    IF SuppressDiagnostics(cfg, host)
    THEN [cfa |-> cfa, diagnostics |-> host, path |-> "suppressed",
          runnerInvoked |-> FALSE, registered |-> <<>>]
    ELSE IF HasRegistry(cfa, fileName)
    THEN [cfa |-> cfa, diagnostics |-> host, path |-> "linted",
          runnerInvoked |-> FALSE, registered |-> <<>>]
    ELSE IF SkipDefinitionFile(cfg, fileName)
    THEN [cfa |-> cfa, diagnostics |-> host, path |-> "definitionFile",
          runnerInvoked |-> FALSE, registered |-> <<>>]
    ELSE IF run.threw
    THEN [cfa |-> cfa, diagnostics |-> host, path |-> "runnerThrew",
          runnerInvoked |-> TRUE, registered |-> <<>>]
    ELSE LET done == RecordProblems(cfg, GetSourceFile(fileName),
                         FilterProblemsForFile(fileName, run.lintResult),
                         [cfa |-> cfa,
                          diagnostics |-> IF run.configFileExists
                                          THEN UnshiftWarnings(run.warnings, host)
                                          ELSE host,
                          registered |-> <<>>])
         IN  [cfa |-> done.cfa, diagnostics |-> done.diagnostics, path |-> "linted",
              runnerInvoked |-> TRUE, registered |-> done.registered]

\* getSemanticDiagnostics(delegate, fileName).  `host` is what the delegate
\* returned; `run` is the outcome of runner.runEsLint (threw, or a RunResult
\* with its report and warnings) and configFileExists what ts.sys.fileExists
\* answers for the lint configuration.  Returns the new codeFixActions, the
\* diagnostics handed back, the path taken, whether the runner was invoked
\* and the Problems this request registered.
GetSemanticDiagnostics(cfg, cfa, fileName, host, run) ==
    IF SuppressDiagnostics(cfg, host)
    THEN [cfa |-> cfa, diagnostics |-> host, path |-> "suppressed",
          runnerInvoked |-> FALSE, registered |-> <<>>]
    ELSE LET cleared == ClearRegistry(cfa, fileName)
         IN  IF SkipDefinitionFile(cfg, fileName)
             THEN [cfa |-> cleared, diagnostics |-> host, path |-> "definitionFile",
                   runnerInvoked |-> FALSE, registered |-> <<>>]
             ELSE IF run.threw
             THEN [cfa |-> cleared, diagnostics |-> RunnerFailureResult(host),
                   path |-> "runnerThrew", runnerInvoked |-> TRUE, registered |-> <<>>]
             ELSE LET withWarnings ==
                          IF run.configFileExists
                          THEN UnshiftWarnings(run.warnings, host)
                          ELSE host
                      eslintProblems == FilterProblemsForFile(fileName, run.lintResult)
                      done == RecordProblems(cfg, GetSourceFile(fileName), eslintProblems,
                                  [cfa |-> cleared, diagnostics |-> withWarnings,
                                   registered |-> <<>>])
                  IN  [cfa |-> done.cfa, diagnostics |-> done.diagnostics,
                       path |-> "linted", runnerInvoked |-> TRUE,
                       registered |-> done.registered]

----------------------------------------------------------------------------
(* src/plugin.ts: code fixes.                                              *)

TextChange(newText, start, length) ==
    [newText |-> newText, span |-> [start |-> start, length |-> length]]

ConvertReplacementToTextChange(repl) ==
    TextChange(repl.text, repl.range[1], repl.range[2] - repl.range[1])

\* convertFixToTextChange(fix) reads fix.range[0]: on a list of replacements
\* fix.range is undefined and the read throws a TypeError.
ConvertFixToTextChange(fix) ==
    IF fix.kind = "object"
    THEN [threw |-> FALSE,
          change |-> TextChange(fix.reps[1].text, fix.reps[1].range[1],
                                fix.reps[1].range[2] - fix.reps[1].range[1])]
    ELSE [threw |-> TRUE, change |-> TextChange("", 0, 0)]

FailureToFileTextChange(failure, fileName) ==
    LET fix == failure.fix
        converted == IF FixIsTruthy(fix) THEN ConvertFixToTextChange(fix)
                     ELSE [threw |-> FALSE, change |-> TextChange("", 0, 0)]
    IN  [threw |-> converted.threw,
         change |-> [fileName |-> fileName,
                     textChanges |-> IF FixIsTruthy(fix) THEN <<converted.change>> ELSE <<>>]]

\* A ts.CodeFixAction.  description and fixName are kept as the pieces of
\* their template strings.
CodeFixAction(description, fixName, changes) ==
    [description |-> description, fixName |-> fixName, changes |-> changes,
     fixId |-> None, fixAllDescription |-> None]

FixAllDescription(ruleName) == <<"Fix all '", ruleName, "'">>

GetRuleFailureQuickFix(failure, fileName) ==
    LET change == FailureToFileTextChange(failure, fileName)
    IN  [threw |-> change.threw,
         action |-> CodeFixAction(<<"Fix: ", failure.message>>,
                                  <<"eslint:", RuleIdToString(failure.ruleId)>>,
                                  <<change.change>>)]

\* The loop of getRuleFailureFixAllQuickFix over problems.values().
RECURSIVE RuleFixAllChanges(_, _, _, _)
RuleFixAllChanges(ruleName, problems, fileName, acc) ==
    IF problems = <<>> \/ acc.threw THEN acc
    ELSE LET problem == Head(problems)
         IN  IF problem.fixable /\ problem.failure.ruleId = Some(ruleName)
             THEN LET change == FailureToFileTextChange(problem.failure, fileName)
                  IN  RuleFixAllChanges(ruleName, Tail(problems), fileName,
                          [threw |-> change.threw,
                           changes |-> Append(acc.changes, change.change)])
             ELSE RuleFixAllChanges(ruleName, Tail(problems), fileName, acc)

\* A threshold that is off by one.
TooFewBelowOne(changes) == Len(changes) < 1

\* `changes.length < 2`: no action for a single instance.
TooFewForFixAll(changes) == Len(changes) < 2

\* getRuleFailureFixAllQuickFix: action is None for undefined.
GetRuleFailureFixAllQuickFix(ruleName, pm, fileName) ==
    LET built == RuleFixAllChanges(ruleName, PMValues(pm), fileName,
                                   [threw |-> FALSE, changes |-> <<>>])
    IN  IF built.threw THEN [threw |-> TRUE, action |-> None]
        ELSE IF TooFewForFixAll(built.changes) THEN [threw |-> FALSE, action |-> None]
        ELSE [threw |-> FALSE,
              action |-> Some(CodeFixAction(FixAllDescription(ruleName),
                                            <<"eslint:fix-all:", ruleName>>,
                                            built.changes))]

\* The leading spaces and tabs of a text: lineText.match(/^([ \t]+)/).
RECURSIVE LeadingSpace(_)
LeadingSpace(text) ==
    IF text # <<>> /\ Head(text) \in {" ", "\t"}
    THEN <<Head(text)>> \o LeadingSpace(Tail(text))
    ELSE <<>>

\* snapshot.getText(start, end) of a string snapshot: text.substring, which
\* reads an undefined start as 0.
SnapshotGetText(text, start, end) ==
    LET from == IF IsSome(start) THEN Val(start) ELSE 0
        lo == IF from < end THEN from ELSE end
        hi == IF from < end THEN end ELSE from
    IN  SubSeq(text, lo + 1, hi)

\* getDisableRuleQuickFix.  lineStarts[line] is undefined (None) when the
\* 0-based line is not an index of the table.
GetDisableRuleQuickFix(failure, fileName, file, hasSnapshot) ==
    LET line == failure.line - 1
        lineStarts == file.lineStarts
        lineStart == IF line >= 0 /\ line < Len(lineStarts)
                     THEN Some(lineStarts[line + 1]) ELSE None
        lineEnd == IF line < Len(lineStarts) - 1 THEN lineStarts[line + 2] ELSE file.end
        prefix == IF hasSnapshot
                  THEN LeadingSpace(SnapshotGetText(file.text, lineStart, lineEnd))
                  ELSE <<>>
    IN  CodeFixAction(<<"Disable rule '", RuleIdToString(failure.ruleId), "'">>,
                      <<"eslint:disable:", RuleIdToString(failure.ruleId)>>,
                      <<[fileName |-> fileName,
                         textChanges |->
                             <<[newText |-> <<prefix, "// eslint-disable-next-line ",
                                              RuleIdToString(failure.ruleId), "\n">>,
                                span |-> [start |-> lineStart, length |-> 0]]>>]>>)

\* The failures handed to the resolver: those of the fixable Problems.
FixableFailures(pm) ==
    LET fixable == SelectSeq(PMValues(pm), LAMBDA x : x.fixable)
    IN  [i \in 1..Len(fixable) |-> fixable[i].failure]

GetFixAllAutoFixableQuickFix(pm, fileName) ==
    LET all == GetNonOverlappingReplacements(FixableFailures(pm))
    IN  [threw |-> all.threw,
         action |-> CodeFixAction(<<"Fix all auto-fixable eslint failures">>,
                        <<"eslint:fix-all">>,
                        <<[fileName |-> fileName,
                           textChanges |->
                               [i \in 1..Len(all.replacements) |->
                                   ConvertReplacementToTextChange(all.replacements[i])]]>>)]

\* The single-instance fix, tagged with the fix-group id when the
\* rule-scoped fix-all exists.
TagWithFixId(action, failure, fixAll) ==
    IF IsSome(fixAll)
    THEN [action EXCEPT !.fixId = Some(FromFailure(failure)),
                        !.fixAllDescription =
                            Some(FixAllDescription(RuleIdToString(failure.ruleId)))]
    ELSE action

\* Overlay actions with the fix of all auto-fixable failures added for
\* every Problem, fixable or not.
OverlayActionsAlwaysFixAll(pm, problem, fileName, hasSnapshot) ==
    LET failure == problem.failure
        disable == GetDisableRuleQuickFix(failure, fileName, GetSourceFile(fileName),
                                          hasSnapshot)
        auto == GetFixAllAutoFixableQuickFix(pm, fileName)
    IN  IF problem.fixable /\ FixIsTruthy(failure.fix)
        THEN LET quick == GetRuleFailureQuickFix(failure, fileName)
                 fixAll == GetRuleFailureFixAllQuickFix(Val(failure.ruleId), pm, fileName)
             IN  IF quick.threw \/ fixAll.threw \/ auto.threw
                 THEN [threw |-> TRUE, actions |-> <<>>]
                 ELSE [threw |-> FALSE,
                       actions |-> <<TagWithFixId(quick.action, failure, fixAll.action),
                                     auto.action, disable>>]
        ELSE [threw |-> auto.threw, actions |-> <<auto.action, disable>>]

\* The actions getCodeFixesAtPosition adds for the Problem found at the
\* requested span.
OverlayActions(pm, problem, fileName, hasSnapshot) ==
    LET failure == problem.failure
        disable == GetDisableRuleQuickFix(failure, fileName, GetSourceFile(fileName),
                                          hasSnapshot)
    IN  IF problem.fixable /\ FixIsTruthy(failure.fix)
        THEN LET quick == GetRuleFailureQuickFix(failure, fileName)
                 fixAll == GetRuleFailureFixAllQuickFix(Val(failure.ruleId), pm, fileName)
                 auto == GetFixAllAutoFixableQuickFix(pm, fileName)
             IN  IF quick.threw \/ fixAll.threw \/ auto.threw
                 THEN [threw |-> TRUE, actions |-> <<>>]
                 ELSE [threw |-> FALSE,
                       actions |-> <<TagWithFixId(quick.action, failure, fixAll.action),
                                     auto.action, disable>>]
        ELSE [threw |-> FALSE, actions |-> <<disable>>]

\* `documentFixes.get(start, end)` of getCodeFixesAtPosition: the Problem the
\* request is about, None when the file has no Registry or no Problem there.
LookupProblem(cfa, fileName, start, end) ==
    IF HasRegistry(cfa, fileName) THEN PMGet(cfa[fileName], start, end) ELSE None

\* getCodeFixesAtPosition(delegate, fileName, start, end, ...).  hostFixes is
\* what the delegate returned.  Nothing catches an exception here: `threw`
\* means it reaches the host.
GetCodeFixesAtPosition(cfg, cfa, fileName, start, end, hostFixes, hasSnapshot) ==
    IF cfg.suppressWhileTypeErrorsPresent /\ Len(hostFixes) > 0
    THEN [threw |-> FALSE, fixes |-> hostFixes]
    ELSE LET found == LookupProblem(cfa, fileName, start, end)
         IN  IF IsSome(found) /\ RuleIdIsTruthy(Val(found).failure.ruleId)
             THEN LET added == OverlayActions(cfa[fileName], Val(found), fileName, hasSnapshot)
                  IN  [threw |-> added.threw,
                       fixes |-> IF added.threw THEN <<>> ELSE hostFixes \o added.actions]
             ELSE [threw |-> FALSE, fixes |-> hostFixes]

\* A check that takes only undefined for unparseable.
RuleNameIsUndefined(ruleName) == ~IsSome(ruleName)

\* `if (!ruleName)`: undefined and the empty string are falsy.
RuleNameIsFalsy(ruleName) == ~IsSome(ruleName) \/ Val(ruleName) = <<>>

\* What the host's own getCombinedCodeFix returns.
HostCombinedCodeFix == [changes |-> <<"host">>, commands |-> Some(<<"host">>)]

\* getCombinedCodeFix(delegate, scope, fixId, ...).  commands: fixAll.commands
\* is undefined (None), and `{ changes: [] }` has none.
GetCombinedCodeFix(cfa, fileName, fixId) ==
    LET ruleName == ToRuleName(fixId)
    IN  IF RuleNameIsFalsy(ruleName)
        THEN [threw |-> FALSE, delegated |-> TRUE,
              changes |-> HostCombinedCodeFix.changes,
              commands |-> HostCombinedCodeFix.commands]
        ELSE LET fixAll == IF HasRegistry(cfa, fileName)
                           THEN GetRuleFailureFixAllQuickFix(Val(ruleName), cfa[fileName], fileName)
                           ELSE [threw |-> FALSE, action |-> None]
             IN  [threw |-> fixAll.threw, delegated |-> FALSE,
                  changes |-> IF IsSome(fixAll.action) THEN Val(fixAll.action).changes ELSE <<>>,
                  commands |-> None]

----------------------------------------------------------------------------
(* Inputs: what the host and the analyzer can hand to the plugin.          *)

\* Where a finding is reported: [line, column, endLine, endColumn].  In
\* SourceText LocA maps to the span [0,1], LocB to [0,2] (it contains LocA)
\* and LocC to [4,6].
LocA == <<1, Some(1), 1, Some(2)>>
LocB == <<1, Some(1), 1, Some(3)>>
LocC == <<2, Some(2), 2, Some(4)>>

FindingAt(ruleId, loc, fix) == Finding(ruleId, loc[1], loc[2], loc[3], loc[4], fix)

\* The findings the analyzer reports in Spec: fixable ones of one rule with
\* an object fix, one whose fix is a list, one without a fix, and one
\* without a rule id on the span of another.
FixableAtA == FindingAt(Some(RuleSemi), LocA, ObjectFix(0, 1))
FixableAtC == FindingAt(Some(RuleSemi), LocC, ObjectFix(4, 6))
ListFixAtB == FindingAt(Some(RuleSemi), LocB, ArrayFix(<<Rep(1, 2)>>))
UnfixableAtB == FindingAt(Some(RuleQuotes), LocB, NoFix)
NoRuleAtA == FindingAt(None, LocA, NoFix)

Findings == {FixableAtA, FixableAtC, ListFixAtB, UnfixableAtB, NoRuleAtA}

\* The messages of one result of a report.
MessageLists == SeqsUpTo(Findings, MaxMessages)

\* A RunResult of runner.runEsLint, or its throwing.
RunResult(report, warnings, configFileExists) ==
    [threw |-> FALSE, lintResult |-> report, warnings |-> warnings,
     configFileExists |-> configFileExists]
RunThrew == [threw |-> TRUE, lintResult |-> <<>>, warnings |-> <<>>, configFileExists |-> FALSE]

ReportFor(filePath, messages) == <<[filePath |-> filePath, messages |-> messages]>>

\* The outcomes of a run for fileName: it throws; it reports up to
\* MaxMessages messages for the file; it reports a message for another
\* file; it reports at most one message together with warnings, with or
\* without a lint configuration file on disk.
RunOutcomes(fileName) ==
    {RunThrew}
    \cup { RunResult(ReportFor(fileName, m), <<>>, FALSE) : m \in MessageLists }
    \cup { RunResult(ReportFor(g, <<FixableAtA>>), <<>>, FALSE) : g \in Files \ {fileName} }
    \cup { RunResult(ReportFor(fileName, m), <<"w1", "w2">>, e) :
               m \in {<<>>, <<FixableAtA>>}, e \in BOOLEAN }

\* The findings of SpecFixes: two rules, three spans, and fixes whose ranges
\* are apart (0-1, 3-4, 5-6), touch (0-1 and 1-2) or interleave (the list
\* 0-1, 5-6 around 3-4).
FixRules == {Some(RuleSemi), Some(RuleQuotes)}
FixLocs == {LocA, LocB, LocC}
FixFixes ==
    { NoFix, ObjectFix(0, 1), ObjectFix(1, 2), ObjectFix(3, 4), ObjectFix(5, 6),
      ArrayFix(<<Rep(0, 1), Rep(5, 6)>>) }
FixFindings == { FindingAt(r, l, x) : r \in FixRules, l \in FixLocs, x \in FixFixes }
FixMessageLists == SeqsUpTo(FixFindings, MaxFixMessages)

\* The host's own diagnostics for a file.
HostDiagnostic(code) == Diagnostic("ts", 0, 1, "Error", code, None)
HostDiagnosticLists == { <<>>, <<HostDiagnostic("ts2322"), HostDiagnostic("ts1005")>> }

\* The host's own code fixes at a span.
HostFix == CodeFixAction(<<"host fix">>, <<"host">>, <<>>)
HostFixLists == { <<>>, <<HostFix>> }

\* The spans of code-fix requests: the three spans findings map to and one
\* that overlaps them without being one of them.
RequestSpans == { <<0, 1>>, <<0, 2>>, <<4, 6>>, <<1, 5>> }

\* The fix-group ids of combined-fix requests.
FixIds ==
    { ObjectId,
      StringId(RuleSemi),
      StringId(EslintPrefix),
      StringId(EslintPrefix \o RuleSemi),
      StringId(EslintPrefix \o RuleQuotes) }

Configs ==
    [suppressWhileTypeErrorsPresent : BOOLEAN,
     ignoreDefinitionFiles : BOOLEAN,
     alwaysShowRuleFailuresAsWarnings : {None}]

----------------------------------------------------------------------------
(* The plugin as a state machine.                                          *)

\* No request is being served.
Idle == [op |-> "idle"]

\* After init.create: the configuration of the plugin entry and an empty
\* codeFixActions map.
Init ==
    /\ config \in Configs
    /\ codeFixActions = <<>>
    /\ request = Idle
    /\ response = Idle
    /\ runner = NewRunner
    /\ process = ProcessAtStart

\* The host asks for the semantic diagnostics of a file.
SemanticDiagnosticsRequest(fileName, host, run) ==
    LET r == GetSemanticDiagnostics(config, codeFixActions, fileName, host, run)
    IN  /\ request = Idle
        /\ codeFixActions' = r.cfa
        /\ request' = [op |-> "getSemanticDiagnostics", fileName |-> fileName,
                       host |-> host, run |-> run]
        /\ response' = [diagnostics |-> r.diagnostics, path |-> r.path,
                        runnerInvoked |-> r.runnerInvoked, registered |-> r.registered]
        /\ UNCHANGED <<config, runner, process>>

\* The host asks for the code fixes at a span of a file.
CodeFixesRequest(fileName, start, end, hostFixes, hasSnapshot) ==
    LET r == GetCodeFixesAtPosition(config, codeFixActions, fileName, start, end,
                                    hostFixes, hasSnapshot)
    IN  /\ request = Idle
        /\ request' = [op |-> "getCodeFixesAtPosition", fileName |-> fileName,
                       start |-> start, end |-> end, hostFixes |-> hostFixes,
                       hasSnapshot |-> hasSnapshot]
        /\ response' = [threw |-> r.threw, fixes |-> r.fixes]
        /\ UNCHANGED <<config, codeFixActions, runner, process>>

\* The host asks for the combined fix of a fix-group id in a file.
CombinedCodeFixRequest(fileName, fixId) ==
    LET r == GetCombinedCodeFix(codeFixActions, fileName, fixId)
    IN  /\ request = Idle
        /\ request' = [op |-> "getCombinedCodeFix", fileName |-> fileName, fixId |-> fixId]
        /\ response' = [threw |-> r.threw, delegated |-> r.delegated,
                        changes |-> r.changes, commands |-> r.commands]
        /\ UNCHANGED <<config, codeFixActions, runner, process>>

\* onConfigurationChanged: the configuration manager takes the new options.
ConfigurationChanged(cfg) ==
    /\ request = Idle
    /\ config' = cfg
    /\ UNCHANGED <<codeFixActions, request, response, runner, process>>

\* The handler has returned (or thrown) and the host has taken the outcome:
\* the next request can come.
ResponseTaken ==
    /\ request # Idle
    /\ request' = Idle
    /\ response' = Idle
    /\ UNCHANGED <<config, codeFixActions, runner, process>>

Next ==
    \/ \E f \in Files, host \in HostDiagnosticLists :
           \E run \in RunOutcomes(f) : SemanticDiagnosticsRequest(f, host, run)
    \/ \E f \in Files, span \in RequestSpans, hostFixes \in HostFixLists, hasSnapshot \in BOOLEAN :
           CodeFixesRequest(f, span[1], span[2], hostFixes, hasSnapshot)
    \/ \E f \in Files, fixId \in FixIds : CombinedCodeFixRequest(f, fixId)
    \/ \E cfg \in Configs : ConfigurationChanged(cfg)
    \/ ResponseTaken

Spec == Init /\ [][Next]_vars

----------------------------------------------------------------------------
(* SpecFixes: the code-fix and combined-fix requests over the Registries a *)
(* first diagnostics request builds from the reports of FixMessageLists.   *)

InitFixes ==
    \E suppress \in BOOLEAN, m \in FixMessageLists :
        LET cfg == [suppressWhileTypeErrorsPresent |-> suppress,
                    ignoreDefinitionFiles |-> TRUE,
                    alwaysShowRuleFailuresAsWarnings |-> None]
            run == RunResult(ReportFor(FileTs, m), <<>>, FALSE)
            r == GetSemanticDiagnostics(cfg, <<>>, FileTs, <<>>, run)
        IN  /\ config = cfg
            /\ codeFixActions = r.cfa
            /\ request = [op |-> "getSemanticDiagnostics", fileName |-> FileTs,
                          host |-> <<>>, run |-> run]
            /\ response = [diagnostics |-> r.diagnostics, path |-> r.path,
                           runnerInvoked |-> r.runnerInvoked, registered |-> r.registered]
            /\ runner = NewRunner
            /\ process = ProcessAtStart

NextFixes ==
    \/ \E span \in RequestSpans, hostFixes \in HostFixLists :
           CodeFixesRequest(FileTs, span[1], span[2], hostFixes, TRUE)
    \/ \E fixId \in FixIds : CombinedCodeFixRequest(FileTs, fixId)
    \/ ResponseTaken

SpecFixes == InitFixes /\ [][NextFixes]_vars

----------------------------------------------------------------------------
(* SpecResolver: getNonOverlappingReplacements on lists of fixable         *)
(* findings.  A fix is one replacement or a list of two, sorted by         *)
(* position and disjoint, as the analyzer produces them.                   *)

ResolverRanges == { <<a, b>> \in (0..MaxOffset) \X (0..MaxOffset) : a <= b }
ResolverFixes ==
    { ObjectFix(r[1], r[2]) : r \in ResolverRanges }
    \cup { ArrayFix(<<Rep(p[1][1], p[1][2]), Rep(p[2][1], p[2][2])>>) :
               p \in {p \in ResolverRanges \X ResolverRanges : p[1][2] <= p[2][1]} }
ResolverFindings == { FindingAt(Some(RuleSemi), LocA, x) : x \in ResolverFixes }
\* Lists one finding longer, of findings with a single replacement: a kept
\* finding, a rejected one and one compared with the kept one.
SingleFixLists ==
    [1..(MaxFailures + 1) ->
         { FindingAt(Some(RuleSemi), LocA, ObjectFix(r[1], r[2])) : r \in ResolverRanges }]
ResolverInputs == SeqsUpTo(ResolverFindings, MaxFailures) \cup SingleFixLists

InitResolver ==
    /\ config \in {c \in Configs : ~c.suppressWhileTypeErrorsPresent /\ c.ignoreDefinitionFiles}
    /\ codeFixActions = <<>>
    /\ request \in { [op |-> "getNonOverlappingReplacements", failures |-> fs] :
                         fs \in ResolverInputs }
    /\ response = Idle
    /\ runner = NewRunner
    /\ process = ProcessAtStart

\* getNonOverlappingReplacements is called on the pending input.
ResolveCall ==
    /\ request.op = "getNonOverlappingReplacements"
    /\ response = Idle
    /\ response' = GetNonOverlappingReplacements(request.failures)
    /\ UNCHANGED <<config, codeFixActions, request, runner, process>>

NextResolver == ResolveCall

SpecResolver == InitResolver /\ [][NextResolver]_vars

----------------------------------------------------------------------------
(* Properties of the resolver, checked under SpecResolver.                 *)

\* The call of getNonOverlappingReplacements has returned.
Resolved == request.op = "getNonOverlappingReplacements" /\ response # Idle

\* The replacements of the i-th failure in the order the resolver sorted them.
SortedReplacements(i) == GetReplacements(response.sorted[i].fix)

KeptIndices == SeqToSet(response.kept)
RejectedIndices == (1..Len(response.sorted)) \ KeptIndices

\* Replacement a starts no later than b and ends at or after b's start.
ReachesInto(a, b) == a.range[1] <= b.range[1] /\ a.range[2] >= b.range[1]

\* Two replacements overlap or touch, whichever comes first.
Conflict(a, b) == ReachesInto(a, b) \/ ReachesInto(b, a)

\* C4: the output of getNonOverlappingReplacements never holds replacements
\* of two different findings a and b where a starts no later than b and
\* a.end >= b.start: of two findings owning such a pair at most one is kept.
C4_NoConflictingPairKept ==
    Resolved =>
        \A i \in KeptIndices : \A j \in KeptIndices \ {i} :
            \A x \in 1..Len(SortedReplacements(i)), y \in 1..Len(SortedReplacements(j)) :
                ~ReachesInto(SortedReplacements(i)[x], SortedReplacements(j)[y])

\* Two findings own such a pair, one of them a list of replacements, and
\* exactly one of the two is in the output.
C4_Witness ==
    /\ Resolved
    /\ Len(response.sorted) = 2
    /\ Len(response.kept) = 1
    /\ \E i \in 1..2 : response.sorted[i].fix.kind = "array"
    /\ \E x \in 1..Len(SortedReplacements(1)), y \in 1..Len(SortedReplacements(2)) :
           ReachesInto(SortedReplacements(1)[x], SortedReplacements(2)[y])

\* C5 as stated: the output is maximal, every rejected finding has a
\* replacement that overlaps (or touches) a retained replacement.
C5_RejectedConflictsWithRetained ==
    Resolved =>
        \A j \in RejectedIndices :
            \E y \in 1..Len(SortedReplacements(j)), x \in 1..Len(response.replacements) :
                Conflict(response.replacements[x], SortedReplacements(j)[y])

\* C5 amended: the output is maximal for the resolver's own test.  Every
\* rejected finding has, among the replacements retained from findings
\* sorted before it, one that ends at or after the start of the rejected
\* finding's first replacement.
C5_RejectedStartsBeforeRetainedEnd ==
    Resolved =>
        \A j \in RejectedIndices :
            \E i \in {k \in KeptIndices : k < j} :
                \E x \in 1..Len(SortedReplacements(i)) :
                    SortedReplacements(i)[x].range[2] >= SortedReplacements(j)[1].range[1]

\* A finding is rejected although none of its replacements overlaps or
\* touches a retained one: a retained list of replacements spans it.
C5_Witness ==
    /\ Resolved
    /\ RejectedIndices # {}
    /\ \E j \in RejectedIndices :
           \A y \in 1..Len(SortedReplacements(j)), x \in 1..Len(response.replacements) :
               ~Conflict(response.replacements[x], SortedReplacements(j)[y])

\* The last replacement retained from the findings sorted before the i-th.
LastRetainedBefore(i) ==
    LET k == CHOOSE k \in KeptIndices :
                 k < i /\ \A other \in KeptIndices : other < i => other <= k
    IN  SortedReplacements(k)[Len(SortedReplacements(k))]

\* The replacements of the kept findings, finding after finding.
RECURSIVE ReplacementsOfKept(_)
ReplacementsOfKept(i) ==
    IF i > Len(response.sorted) THEN <<>>
    ELSE (IF i \in KeptIndices THEN SortedReplacements(i) ELSE <<>>)
             \o ReplacementsOfKept(i + 1)

\* C27: the finding whose first replacement starts first is kept; a later
\* finding is kept if and only if its first replacement starts strictly
\* after the end of the last retained replacement (one that starts exactly
\* at that end is rejected); the output holds all replacements of the kept
\* findings and none of a rejected one.
C27_KeptIffStartsPastLastRetained ==
    Resolved =>
        /\ ~response.threw
        /\ Len(response.sorted) = Len(request.failures)
        /\ Len(response.sorted) >= 1 =>
               /\ 1 \in KeptIndices
               /\ \A j \in 1..Len(request.failures) :
                      FirstStart(response.sorted[1]) <= FirstStart(request.failures[j])
        /\ \A i \in 2..Len(response.sorted) :
               i \in KeptIndices <=>
                   SortedReplacements(i)[1].range[1] > LastRetainedBefore(i).range[2]
        /\ response.replacements = ReplacementsOfKept(1)

\* Three findings: the second starts exactly at the end of the first and is
\* rejected; the third starts past the end of the first, inside the
\* rejected one, and is kept.
C27_Witness ==
    /\ Resolved
    /\ Len(response.sorted) = 3
    /\ response.kept = <<1, 3>>
    /\ SortedReplacements(2)[1].range[1] = SortedReplacements(1)[1].range[2]
    /\ SortedReplacements(3)[1].range[1] < SortedReplacements(2)[1].range[2]
    /\ Len(response.replacements) = 2

----------------------------------------------------------------------------
(* Properties of the diagnostics request, checked under Spec.              *)

\* The Problems in the Registry of a file.
RegistryProblems(cfa, fileName) ==
    IF HasRegistry(cfa, fileName) THEN SeqToSet(PMValues(cfa[fileName])) ELSE {}

\* A diagnostics request is being answered in this step.
DiagnosticsServed == request = Idle /\ request'.op = "getSemanticDiagnostics"

\* The request meets the suppression short-circuit: the host has
\* diagnostics and suppressWhileTypeErrorsPresent is set.
ShortCircuited(req) == config.suppressWhileTypeErrorsPresent /\ Len(req.host) > 0

\* The request stops at the definition-file check.
DefinitionFileSkipped(req) ==
    config.ignoreDefinitionFiles /\ EndsWith(req.fileName, DtsSuffix)

\* C1 as stated: after a diagnostics request for f, whatever path it took,
\* the Registry of f holds only Problems of that request's own lint run.
C1_RegistryOnlyFromThisRequest ==
    request.op = "getSemanticDiagnostics" =>
        RegistryProblems(codeFixActions, request.fileName) \subseteq SeqToSet(response.registered)

\* C1 amended: a diagnostics request for f that is not short-circuited by
\* suppression leaves in the Registry of f only Problems of its own lint
\* run; a short-circuited request leaves every Registry as it found it.
C1_RegistryRebuiltUnlessShortCircuited ==
    [][DiagnosticsServed =>
          IF ShortCircuited(request')
          THEN codeFixActions' = codeFixActions
          ELSE RegistryProblems(codeFixActions', request'.fileName)
                   \subseteq SeqToSet(response'.registered)]_vars

\* A short-circuited request has returned and the Registry of its file
\* still holds the Problem of an earlier request.
C1_Witness ==
    /\ request.op = "getSemanticDiagnostics"
    /\ ShortCircuited(request)
    /\ response.registered = <<>>
    /\ RegistryProblems(codeFixActions, request.fileName) # {}

\* C2: when the Runner throws during a diagnostics request, the request
\* returns exactly the host's diagnostics (same elements, same order) and
\* the Registry of the file is left empty.
C2_RunnerThrowReturnsHostDiagnostics ==
    ( /\ request.op = "getSemanticDiagnostics"
      /\ ~ShortCircuited(request)
      /\ ~DefinitionFileSkipped(request)
      /\ request.run.threw )
    => /\ response.diagnostics = request.host
       /\ RegistryProblems(codeFixActions, request.fileName) = {}

\* The Runner was invoked and threw while the host had diagnostics.
C2_Witness ==
    /\ request.op = "getSemanticDiagnostics"
    /\ response.runnerInvoked
    /\ request.run.threw
    /\ request.host # <<>>

\* C10: with host diagnostics present and suppressWhileTypeErrorsPresent
\* set, a diagnostics request returns the host diagnostics unchanged, the
\* Runner is not invoked and no Problem is registered.
C10_SuppressionShortCircuits ==
    [][(DiagnosticsServed /\ ShortCircuited(request')) =>
          /\ response'.diagnostics = request'.host
          /\ ~response'.runnerInvoked
          /\ response'.registered = <<>>
          /\ codeFixActions' = codeFixActions]_vars

\* A short-circuited request whose lint run would have reported findings
\* for the file.
C10_Witness ==
    /\ request.op = "getSemanticDiagnostics"
    /\ ShortCircuited(request)
    /\ ~request.run.threw
    /\ FilterProblemsForFile(request.fileName, request.run.lintResult) # <<>>
    /\ response.diagnostics = request.host

\* C3 as stated: no code-fix or combined-fix request lets an exception
\* raised in the overlay reach the host.
C3_NoExceptionReachesHost ==
    request.op \in {"getCodeFixesAtPosition", "getCombinedCodeFix"} => ~response.threw

----------------------------------------------------------------------------
(* Properties of the code-fix requests, checked under SpecFixes.           *)

\* The spans of the Problems in the Registry of a file.
RegisteredSpans(fileName) ==
    { <<GetTextSpan(GetSourceFile(fileName), p.failure).start,
        GetTextSpan(GetSourceFile(fileName), p.failure).end>> :
          p \in RegistryProblems(codeFixActions, fileName) }

\* C8: a code-fix request at (file, start, end) adds overlay actions only
\* when the Registry of the file holds a Problem registered at exactly that
\* span; at any other span the result equals the host's own fixes.
C8_OnlyExactSpanAddsActions ==
    ( /\ request.op = "getCodeFixesAtPosition"
      /\ <<request.start, request.end>> \notin RegisteredSpans(request.fileName) )
    => /\ ~response.threw
       /\ response.fixes = request.hostFixes

\* A request at a span that contains or partially overlaps a registered
\* span without being one, with suppression off: only the host's fix is
\* returned.
C8_Witness ==
    /\ request.op = "getCodeFixesAtPosition"
    /\ ~config.suppressWhileTypeErrorsPresent
    /\ <<request.start, request.end>> \notin RegisteredSpans(request.fileName)
    /\ \E sp \in RegisteredSpans(request.fileName) :
           sp[1] <= request.end /\ request.start <= sp[2]
    /\ request.hostFixes # <<>>
    /\ response.fixes = request.hostFixes

\* The request is a code-fix request that gets past the suppression check
\* of getCodeFixesAtPosition.
CodeFixConsultsRegistry ==
    /\ request.op = "getCodeFixesAtPosition"
    /\ ~(config.suppressWhileTypeErrorsPresent /\ Len(request.hostFixes) > 0)

\* The Problems registered at exactly the requested span (at most one).
ProblemsAtRequestedSpan ==
    { p \in RegistryProblems(codeFixActions, request.fileName) :
          /\ GetTextSpan(GetSourceFile(request.fileName), p.failure).start = request.start
          /\ GetTextSpan(GetSourceFile(request.fileName), p.failure).end = request.end }

\* The request is at the exact span of a fixable Problem with a rule id.
AtFixableProblem ==
    /\ CodeFixConsultsRegistry
    /\ \E p \in ProblemsAtRequestedSpan : p.fixable /\ RuleIdIsTruthy(p.failure.ruleId)

RequestedRule == Val((CHOOSE p \in ProblemsAtRequestedSpan : TRUE).failure.ruleId)

\* The fixable Problems of the requested file, all and of one rule, in
\* Registry order.
FixableProblems ==
    IF HasRegistry(codeFixActions, request.fileName)
    THEN SelectSeq(PMValues(codeFixActions[request.fileName]), LAMBDA p : p.fixable)
    ELSE <<>>
FixableOfRule(ruleName) ==
    SelectSeq(FixableProblems, LAMBDA p : p.failure.ruleId = Some(ruleName))

HasListFix(problems) == \E i \in 1..Len(problems) : problems[i].failure.fix.kind = "array"

\* The ranges of the replacements of the i-th fixable Problem.
FixRanges(i) ==
    LET reps == GetReplacements(FixableProblems[i].failure.fix)
    IN  { reps[k].range : k \in 1..Len(reps) }

\* Ranges [s,e) that share no character, and ranges with a gap between them.
Disjoint(a, b) == a[2] <= b[1] \/ b[2] <= a[1]
Separated(a, b) == a[2] < b[1] \/ b[2] < a[1]

FixRangesPairwiseDisjoint ==
    \A i \in 1..Len(FixableProblems) : \A j \in (1..Len(FixableProblems)) \ {i} :
        \A a \in FixRanges(i), b \in FixRanges(j) : Disjoint(a, b)

FixRangesPairwiseSeparated ==
    \A i \in 1..Len(FixableProblems) : \A j \in (1..Len(FixableProblems)) \ {i} :
        \A a \in FixRanges(i), b \in FixRanges(j) : Separated(a, b)

\* The "fix all auto-fixable" actions of the result, and the edits of an action.
AutoFixAllActions ==
    { i \in 1..Len(response.fixes) : response.fixes[i].fixName = <<"eslint:fix-all">> }

RECURSIVE EditCount(_)
EditCount(changes) ==
    IF changes = <<>> THEN 0
    ELSE Len(Head(changes).textChanges) + EditCount(Tail(changes))

Edits(action) ==
    UNION { SeqToSet(action.changes[k].textChanges) : k \in 1..Len(action.changes) }

QuickFixAction == response.fixes[Len(request.hostFixes) + 1]

\* C7 as stated: on a code-fix request at the exact span of a fixable
\* Problem of rule r, the result holds a "Fix all 'r'" action with fix-group
\* id "eslint:r" and one edit per fixable Problem of rule r if and only if
\* at least 2 fixable Problems of the Registry have rule r; with fewer no
\* fix-group id is published.
C7_FixAllActionIffTwoOfRule ==
    (AtFixableProblem /\ ~response.threw) =>
        LET r == RequestedRule
            n == Len(FixableOfRule(r))
            fixAlls == { i \in 1..Len(response.fixes) :
                           /\ \/ response.fixes[i].description = FixAllDescription(r)
                              \/ response.fixes[i].fixAllDescription = Some(FixAllDescription(r))
                           /\ response.fixes[i].fixId = Some(StringId(EslintPrefix \o r))
                           /\ EditCount(response.fixes[i].changes) = n }
        IN  /\ (fixAlls # {}) <=> (n >= 2)
            /\ n < 2 => \A i \in 1..Len(response.fixes) : response.fixes[i].fixId = None

\* C7 amended: on such a request no rule-scoped fix-all action is added to
\* the result.  The result is the host's fixes followed by the
\* single-instance fix (one edit), the "fix all auto-fixable" action and
\* the disable-rule action; the single-instance fix carries fix-group id
\* "eslint:r" and fixAllDescription "Fix all 'r'" if and only if at least 2
\* fixable Problems of the Registry have rule r, and no other action
\* carries a fix-group id.  When a fixable Problem of rule r carries a list
\* fix the request fails instead (C3).
C7_FixIdOnSingleFixIffTwoOfRule ==
    AtFixableProblem =>
        LET r == RequestedRule
            n == Len(FixableOfRule(r))
            host == Len(request.hostFixes)
        IN  IF HasListFix(FixableOfRule(r))
            THEN response.threw
            ELSE /\ ~response.threw
                 /\ Len(response.fixes) = host + 3
                 /\ SubSeq(response.fixes, 1, host) = request.hostFixes
                 /\ \A i \in 1..Len(response.fixes) :
                        /\ response.fixes[i].fixName # <<"eslint:fix-all:", r>>
                        /\ response.fixes[i].description # FixAllDescription(r)
                        /\ i # host + 1 => response.fixes[i].fixId = None
                 /\ QuickFixAction.fixName = <<"eslint:", r>>
                 /\ EditCount(QuickFixAction.changes) = 1
                 /\ n >= 2 => /\ QuickFixAction.fixId = Some(StringId(EslintPrefix \o r))
                               /\ QuickFixAction.fixAllDescription = Some(FixAllDescription(r))
                 /\ n < 2 => /\ QuickFixAction.fixId = None
                              /\ QuickFixAction.fixAllDescription = None

\* Two fixable Problems share the rule of the Problem at the span, and the
\* single-instance fix carries the fix-group id.
C7_Witness ==
    /\ AtFixableProblem
    /\ ~response.threw
    /\ Len(FixableOfRule(RequestedRule)) >= 2
    /\ QuickFixAction.fixId = Some(StringId(EslintPrefix \o RequestedRule))

\* The fix-group id of the request lacks what toRuleName needs: it is not a
\* string or does not start with "eslint:".
Unparseable(fixId) == ~fixId.isString \/ ~StartsWith(fixId.chars, EslintPrefix)

\* What follows the prefix in a fix-group id that carries it.
AfterPrefix(fixId) == SubSeq(fixId.chars, Len(EslintPrefix) + 1, Len(fixId.chars))

\* C9 as stated: a combined-fix request delegates to the host exactly when
\* the fix-group id is not a string or lacks the prefix "eslint:".
C9_DelegatesIffUnparseable ==
    request.op = "getCombinedCodeFix" =>
        (response.delegated <=> Unparseable(request.fixId))

\* C9 amended: a combined-fix request delegates to the host exactly when
\* the id is not a string, lacks the prefix "eslint:" or has nothing after
\* the prefix.  Otherwise it never delegates and returns, with no commands,
\* one edit per fixable Problem of that rule in the current Registry of the
\* file when there are at least two, and an empty edit set otherwise; when
\* one of those Problems carries a list fix the request fails instead (C3).
C9_DelegatesIffNoRuleName ==
    request.op = "getCombinedCodeFix" =>
        IF Unparseable(request.fixId) \/ AfterPrefix(request.fixId) = <<>>
        THEN /\ response.delegated
             /\ ~response.threw
             /\ response.changes = HostCombinedCodeFix.changes
             /\ response.commands = HostCombinedCodeFix.commands
        ELSE LET ofRule == FixableOfRule(AfterPrefix(request.fixId))
             IN  /\ ~response.delegated
                 /\ IF HasListFix(ofRule)
                    THEN response.threw
                    ELSE /\ ~response.threw
                         /\ response.commands = None
                         /\ response.changes =
                                IF Len(ofRule) >= 2
                                THEN [k \in 1..Len(ofRule) |->
                                         [fileName |-> request.fileName,
                                          textChanges |->
                                              <<ConvertReplacementToTextChange(
                                                    ofRule[k].failure.fix.reps[1])>>]]
                                ELSE <<>>

\* The id names a rule with two fixable Problems, and the request returns
\* their edits without delegating.
C9_Witness ==
    /\ request.op = "getCombinedCodeFix"
    /\ ~Unparseable(request.fixId)
    /\ ~response.delegated
    /\ ~response.threw
    /\ Len(response.changes) >= 2
    /\ Len(FixableOfRule(AfterPrefix(request.fixId))) = Len(response.changes)

----------------------------------------------------------------------------
(* Properties of the diagnostics a successful run adds, checked under Spec.*)

\* The diagnostics request just served ran the analyzer to its end.
LintedRequest ==
    /\ request.op = "getSemanticDiagnostics"
    /\ ~ShortCircuited(request)
    /\ ~DefinitionFileSkipped(request)
    /\ ~request.run.threw

\* The positions in the returned diagnostics of the synthetic diagnostics
\* for warning string w.
WarningDiagnosticsFor(w) ==
    { i \in 1..Len(response.diagnostics) :
          /\ response.diagnostics[i].source = "eslint"
          /\ response.diagnostics[i].messageText = <<w, None>> }

\* C11 as stated: on a successful run with warnings, each warning string
\* yields exactly one warning-category diagnostic of zero length when a
\* lint configuration file exists, and none when it does not.
C11_ZeroLengthWarningPerString ==
    LintedRequest =>
        \A k \in 1..Len(request.run.warnings) :
            LET at == WarningDiagnosticsFor(request.run.warnings[k])
            IN  IF request.run.configFileExists
                THEN /\ Cardinality(at) = 1
                     /\ \A i \in at : /\ response.diagnostics[i].category = "Warning"
                                       /\ response.diagnostics[i].length = 0
                ELSE at = {}

\* C11 amended: each warning string yields exactly one warning-category
\* diagnostic at offset 0 of length 1 when a lint configuration file
\* exists, and none when it does not.
C11_LengthOneWarningPerString ==
    LintedRequest =>
        \A k \in 1..Len(request.run.warnings) :
            LET at == WarningDiagnosticsFor(request.run.warnings[k])
            IN  IF request.run.configFileExists
                THEN /\ Cardinality(at) = 1
                     /\ \A i \in at : /\ response.diagnostics[i].category = "Warning"
                                       /\ response.diagnostics[i].start = 0
                                       /\ response.diagnostics[i].length = 1
                ELSE at = {}

\* A successful run with two warnings and a finding while a configuration
\* file exists and the host has diagnostics of its own.
C11_Witness ==
    /\ LintedRequest
    /\ Len(request.run.warnings) = 2
    /\ request.run.configFileExists
    /\ request.host # <<>>
    /\ response.registered # <<>>
    /\ Len(response.diagnostics) = Len(request.host) + 3

\* What the handler answers when the request just served is made again:
\* same file, same delegate diagnostics, same analyzer output, and the
\* configuration and Registry as the first request left them.
ServedAgain ==
    GetSemanticDiagnostics(config, codeFixActions, request.fileName, request.host,
                           request.run)

\* C20: a diagnostics request repeated with snapshot, configuration and
\* analyzer output unchanged returns the same diagnostics (so the same
\* synthesized spans) and leaves the Registry with the same contents.
C20_RepeatedRequestChangesNothing ==
    request.op = "getSemanticDiagnostics" =>
        /\ ServedAgain.diagnostics = response.diagnostics
        /\ ServedAgain.cfa = codeFixActions
        /\ ServedAgain.registered = response.registered

\* A request that linted the file, registered a Problem and added its
\* diagnostic to the delegate's own.
C20_Witness ==
    /\ LintedRequest
    /\ request.run.warnings = <<>>
    /\ response.registered # <<>>
    /\ HasRegistry(codeFixActions, request.fileName)
    /\ Len(response.diagnostics) = Len(request.host) + Len(response.registered)

----------------------------------------------------------------------------
(* filterProblemsForFile on its own: SpecFilter draws a requested path and *)
(* a lint report and applies the filter once.                              *)

\* Paths as the analyzer and the host may write them: plain, with a leading
\* "./", with a doubled separator, and another file.
DotSlash(path) == <<".", "/">> \o path
FileInDir == <<"s", "/", "a", ".", "t", "s">>
FileInDirDoubled == <<"s", "/", "/", "a", ".", "t", "s">>
FilterPaths == {FileTs, DotSlash(FileTs), FileInDir, FileInDirDoubled}
\* The filePath of a result: a path, or the empty string.
ResultPaths == FilterPaths \cup {<<>>}
ResultMessages == {<<>>, <<FixableAtA>>, <<UnfixableAtB, FixableAtC>>}
LintResults == { [filePath |-> q, messages |-> m] : q \in ResultPaths, m \in ResultMessages }
LintReports == SeqsUpTo(LintResults, MaxResults)

InitFilter ==
    /\ config \in {c \in Configs : ~c.suppressWhileTypeErrorsPresent /\ c.ignoreDefinitionFiles}
    /\ codeFixActions = <<>>
    /\ request \in { [op |-> "filterProblemsForFile", filePath |-> q, report |-> r] :
                         q \in FilterPaths, r \in LintReports }
    /\ response = Idle
    /\ runner = NewRunner
    /\ process = ProcessAtStart

\* filterProblemsForFile is called on the pending input.
FilterCall ==
    /\ request.op = "filterProblemsForFile"
    /\ response = Idle
    /\ response' = [op |-> "filterProblemsForFile",
                    messages |-> FilterProblemsForFile(request.filePath, request.report)]
    /\ UNCHANGED <<config, codeFixActions, request, runner, process>>

NextFilter == FilterCall

SpecFilter == InitFilter /\ [][NextFilter]_vars

\* The call of filterProblemsForFile has returned.
Filtered == request.op = "filterProblemsForFile" /\ response # Idle

\* Two written paths name the same file: they differ at most by leading
\* "./" segments and doubled separators.
RECURSIVE SamePath(_, _)
SamePath(p, q) ==
    IF StartsWith(p, <<".", "/">>) THEN SamePath(SubSeq(p, 3, Len(p)), q)
    ELSE IF StartsWith(q, <<".", "/">>) THEN SamePath(p, SubSeq(q, 3, Len(q)))
    ELSE IF p = <<>> \/ q = <<>> THEN p = q
    ELSE IF StartsWith(p, <<"/", "/">>) THEN SamePath(Tail(p), q)
    ELSE IF StartsWith(q, <<"/", "/">>) THEN SamePath(p, Tail(q))
    ELSE Head(p) = Head(q) /\ SamePath(Tail(p), Tail(q))

\* The positions of the results of the report that name the requested file.
ResultsForRequestedFile ==
    { i \in 1..Len(request.report) :
          /\ request.report[i].filePath # <<>>
          /\ SamePath(request.report[i].filePath, request.filePath) }

\* The messages of the results at the positions in S, in report order.
RECURSIVE MessagesAt(_, _)
MessagesAt(S, i) ==
    IF i > Len(request.report) THEN <<>>
    ELSE (IF i \in S THEN request.report[i].messages ELSE <<>>) \o MessagesAt(S, i + 1)

----------------------------------------------------------------------------
(* src/runner/index.ts: EsLintRunner.  The subprocesses of resolution      *)
(* (spawnSync, execSync) are taken to run to completion: resolveEsLint     *)
(* answers with a path or with the empty string.                           *)

\* Map.has and Map.set.
MapHas(map, key) == key \in DOMAIN map
MapSet(map, key, value) ==
    [k \in DOMAIN map \cup {key} |-> IF k = key THEN value ELSE map[k]]

\* MruCache: has, the value get returns, the cache get leaves (the entry
\* read becomes the most recently used one) and set (the entry written
\* becomes the most recently used one, and the least recently used entries
\* are dropped while the cache holds more than maxSize of them).
CacheKeys(cache) == {cache.entries[i].key : i \in 1..Len(cache.entries)}
CacheHas(cache, key) == key \in CacheKeys(cache)
CacheGet(cache, key) ==
    cache.entries[CHOOSE i \in 1..Len(cache.entries) : cache.entries[i].key = key].value
CacheWithout(cache, key) == SelectSeq(cache.entries, LAMBDA e : e.key # key)
CacheAfterGet(cache, key) ==
    IF CacheHas(cache, key)
    THEN [cache EXCEPT !.entries =
              Append(CacheWithout(cache, key), [key |-> key, value |-> CacheGet(cache, key)])]
    ELSE cache
CacheSet(cache, key, value) ==
    LET entries == Append(CacheWithout(cache, key), [key |-> key, value |-> value])
        excess == IF Len(entries) > cache.maxSize THEN Len(entries) - cache.maxSize ELSE 0
    IN  [cache EXCEPT !.entries = SubSeq(entries, excess + 1, Len(entries))]

\* emptyLintResult and emptyResult.
EmptyLintResult == [errorCount |-> 0, warningCount |-> 0, results |-> <<>>]
EmptyResult == [lintResult |-> EmptyLintResult, warnings |-> <<>>]

\* The directories of the model: the workspace the files are in, another
\* workspace, the global package directory, and the two values of nodePath
\* (a directory that leads to the install of the workspace, and one that
\* does not exist).
WorkspaceDir == <<"/", "w">>
OtherDir == <<"/", "x">>
GlobalDir == <<"/", "g">>
NodeDir == <<"/", "n">>
MissingDir == <<"/", "m">>

\* fs.existsSync on a configured nodePath.
FsExistsSync(path) == path = NodeDir

\* The install locations resolution can answer with.
PathLocal == "/w/node_modules/eslint"
PathGlobal == "/g/eslint"

\* path.dirname and path.relative for a file directly below a one-segment
\* directory.
Dirname(filePath) ==
    LET last == CHOOSE i \in 1..Len(filePath) :
                    filePath[i] = "/" /\ \A j \in (i + 1)..Len(filePath) : filePath[j] # "/"
    IN  SubSeq(filePath, 1, last - 1)
Relative(from, to) ==
    IF StartsWith(to, from \o <<"/">>) THEN SubSeq(to, Len(from) + 2, Len(to))
    ELSE <<".", ".">> \o to

\* minimatch(path, pattern, {dot: true}) for patterns of literal characters
\* and "*", which stands for any characters of one path segment.
RECURSIVE Minimatch(_, _)
Minimatch(path, pattern) ==
    IF pattern = <<>> THEN path = <<>>
    ELSE IF Head(pattern) = "*"
    THEN \/ Minimatch(path, Tail(pattern))
         \/ path # <<>> /\ Head(path) # "/" /\ Minimatch(Tail(path), pattern)
    ELSE path # <<>> /\ Head(path) = Head(pattern) /\ Minimatch(Tail(path), Tail(pattern))

\* testForExclusionPattern(filePath, pattern, cwd).
TestForExclusionPattern(filePath, pattern, cwd) ==
    IF IsSome(cwd) /\ Val(cwd) # <<>>
    THEN LET relPath == Relative(Val(cwd), filePath)
         IN  IF Minimatch(relPath, pattern) THEN TRUE
             ELSE IF relPath = filePath THEN FALSE
             ELSE Minimatch(filePath, pattern)
    ELSE Minimatch(filePath, pattern)

\* An exclusion test that never tries the path relative to the workspace.
FileIsExcludedAbsoluteOnly(settings, filePath, cwd) ==
    \/ settings.ignoreDefinitionFiles /\ EndsWith(filePath, DtsSuffix)
    \/ \E i \in 1..Len(settings.exclude) : Minimatch(filePath, settings.exclude[i])

\* fileIsExcluded(settings, filePath, cwd).
FileIsExcluded(settings, filePath, cwd) ==
    \/ settings.ignoreDefinitionFiles /\ EndsWith(filePath, DtsSuffix)
    \/ \E i \in 1..Len(settings.exclude) :
           TestForExclusionPattern(filePath, settings.exclude[i], cwd)

\* The case-insensitive reading of a path (the flag i of the pattern of
\* isJsDocument), on the letters of the suffixes.
ToLowerCase(s) ==
    [i \in 1..Len(s) |->
         CASE s[i] = "J" -> "j" [] s[i] = "S" -> "s" [] s[i] = "X" -> "x"
           [] s[i] = "M" -> "m" [] OTHER -> s[i]]

\* A test that knows the suffix ".js" in lower case only.
IsJsDocumentLowerJsOnly(filePath) == EndsWith(filePath, <<".", "j", "s">>)

\* isJsDocument(filePath): /\.(jsx?|mjs)$/i.
IsJsDocument(filePath) ==
    LET lower == ToLowerCase(filePath)
    IN  \/ EndsWith(lower, <<".", "j", "s">>)
        \/ EndsWith(lower, <<".", "j", "s", "x">>)
        \/ EndsWith(lower, <<".", "m", "j", "s">>)

\* getInstallFailureMessage(filePath, packageManager): the message names the
\* file and the two commands.
LocalCommands ==
    [npm |-> "npm install eslint", pnpm |-> "pnpm install eslint", yarn |-> "yarn add eslint"]
GlobalCommands ==
    [npm |-> "npm install -g eslint", pnpm |-> "pnpm install -g eslint",
     yarn |-> "yarn global add eslint"]
GetInstallFailureMessage(filePath, packageManager) ==
    [kind |-> "installFailure", filePath |-> filePath,
     localCommand |-> LocalCommands[packageManager],
     globalCommand |-> GlobalCommands[packageManager]]

\* The warning of loadLibrary about a nodePath that does not exist.
NodePathWarning(nodePath) == [kind |-> "nodePathIgnored", nodePath |-> nodePath]

\* A message the analyzer wrote with console.warn.
ConsoleWarning(message) == [kind |-> "console", message |-> message]

\* A default that overrides the configured package manager.
PackageManagerAlwaysNpm(packageManager) == "npm"

\* configuration.packageManager || "npm".
PackageManagerOrNpm(packageManager) ==
    IF IsSome(packageManager) THEN Val(packageManager) ELSE "npm"

\* getGlobalPackageManagerPath(packageManager): the path is looked up once
\* per package manager; env.globalRoot is what the lookup answers.
GetGlobalPackageManagerPath(rn, packageManager, env) ==
    LET pm == PackageManagerOrNpm(packageManager)
    IN  IF MapHas(rn.globalPackageManagerPath, pm)
        THEN [runner |-> rn, path |-> rn.globalPackageManagerPath[pm]]
        ELSE [runner |-> [rn EXCEPT !.globalPackageManagerPath =
                                        MapSet(@, pm, env.globalRoot)],
              path |-> env.globalRoot]

\* resolveEsLint(nodePath, cwd): what require.resolve('eslint') prints in a
\* subprocess started in cwd with nodePath on the module search path.
ResolveEsLint(nodePath, cwd, env) ==
    IF ~IsSome(nodePath) THEN env.fromDirectory
    ELSE IF Val(nodePath) = GlobalDir THEN env.fromGlobal
    ELSE env.fromNodePath

\* loadLibrary(filePath, configuration, warningsOutput): the warnings pushed
\* and the runner with the resolved path stored for the file.
LoadLibrary(rn, filePath, configuration, env) ==
    LET directory == Dirname(filePath)
        configured == IsSome(configuration.nodePath)
        exists == configured /\ FsExistsSync(Val(configuration.nodePath))
        np == IF exists THEN configuration.nodePath ELSE None
        warnings == IF configured /\ ~exists
                    THEN <<NodePathWarning(Val(configuration.nodePath))>>
                    ELSE <<>>
        first == ResolveEsLint(np, IF IsSome(np) THEN Val(np) ELSE directory, env)
        global == GetGlobalPackageManagerPath(rn, configuration.packageManager, env)
        resolved == IF first = ""
                    THEN [runner |-> global.runner,
                          esLintPath |-> ResolveEsLint(global.path, directory, env)]
                    ELSE [runner |-> rn, esLintPath |-> first]
    IN  [runner |-> [resolved.runner EXCEPT !.document2LibraryCache =
                                                CacheSet(@, filePath, resolved.esLintPath)],
         warnings |-> warnings]

\* require(esLintPath) throws for the empty path and for a broken install.
RequireThrows(esLintPath, env) == esLintPath = "" \/ esLintPath \in env.broken

\* A loader that tries again after a failed load.
LibraryOfRetriesFailure(rn, esLintPath, env) ==
    IF ~MapHas(rn.eslintPath2Library, esLintPath)
           \/ ~IsSome(rn.eslintPath2Library[esLintPath])
    THEN IF RequireThrows(esLintPath, env)
         THEN [runner |-> [rn EXCEPT !.eslintPath2Library = MapSet(@, esLintPath, None)],
               library |-> None, required |-> <<esLintPath>>]
         ELSE [runner |-> [rn EXCEPT !.eslintPath2Library =
                                         MapSet(@, esLintPath, Some(esLintPath))],
               library |-> Some(esLintPath), required |-> <<esLintPath>>]
    ELSE [runner |-> rn, library |-> rn.eslintPath2Library[esLintPath], required |-> <<>>]

\* The function loadLibrary stores for a file, called: the library of
\* esLintPath (None for undefined) and the paths handed to require.
LibraryOf(rn, esLintPath, env) ==
    IF ~MapHas(rn.eslintPath2Library, esLintPath)
    THEN IF RequireThrows(esLintPath, env)
         THEN [runner |-> [rn EXCEPT !.eslintPath2Library = MapSet(@, esLintPath, None)],
               library |-> None, required |-> <<esLintPath>>]
         ELSE [runner |-> [rn EXCEPT !.eslintPath2Library =
                                         MapSet(@, esLintPath, Some(esLintPath))],
               library |-> Some(esLintPath), required |-> <<esLintPath>>]
    ELSE [runner |-> rn, library |-> rn.eslintPath2Library[esLintPath], required |-> <<>>]

\* A release that leaves the working directory where it is.
KeepWorkingDirectory(pr, cwdToRestore) == pr

\* The finally block of doRun: back to the directory saved before chdir.
RestoreWorkingDirectory(pr, cwdToRestore) ==
    IF IsSome(cwdToRestore) THEN [pr EXCEPT !.cwd = Val(cwdToRestore)] ELSE pr

\* A release that leaves console.warn as it is.
KeepConsoleWarn(pr, originalConsoleWarn) == pr

\* The finally block around the analyzer: console.warn = originalConsoleWarn.
RestoreConsoleWarn(pr, originalConsoleWarn) ==
    [pr EXCEPT !.consoleWarn = originalConsoleWarn]

\* The directory doRun works in: the workspace folder, or the current
\* directory of the program when contents is one.
WorkingDirectory(contents, configuration) ==
    IF IsSome(configuration.workspaceFolderPath) /\ Val(configuration.workspaceFolderPath) # <<>>
    THEN configuration.workspaceFolderPath
    ELSE IF contents.isProgram THEN Some(contents.currentDirectory)
    ELSE configuration.workspaceFolderPath

\* isJsDocument(filePath) && !configuration.jsEnable.
SkipsJsDocument(filePath, configuration) ==
    IsJsDocument(filePath) /\ ~configuration.jsEnable

\* A capture that keeps the message from the original console.warn.
CaptureWarningsOnly(captured, message) ==
    [warnings |-> Append(captured.warnings, ConsoleWarning(message)),
     forwarded |-> captured.forwarded]

\* captureWarnings(message): the message is pushed onto warnings and handed
\* to the original console.warn.
CaptureWarnings(captured, message) ==
    [warnings |-> Append(captured.warnings, ConsoleWarning(message)),
     forwarded |-> Append(captured.forwarded, message)]

\* The calls of console.warn while the analyzer runs, one after the other.
RECURSIVE CaptureAll(_, _)
CaptureAll(captured, messages) ==
    IF messages = <<>> THEN captured
    ELSE CaptureAll(CaptureWarnings(captured, Head(messages)), Tail(messages))

\* doRun(filePath, contents, library, configuration, warnings).  `analyzer`
\* is what new CLIEngine(options).executeOnFiles([filePath]) does: the
\* messages it writes with console.warn, and its report or its exception.
DoRun(pr, filePath, contents, library, configuration, warnings, analyzer) ==
    LET cwd == WorkingDirectory(contents, configuration)
        changes == IsSome(cwd) /\ Val(cwd) # <<>>
    IN  IF FileIsExcluded(configuration, filePath, cwd)
        THEN [process |-> pr, threw |-> FALSE, result |-> EmptyResult,
              analyzerInvoked |-> FALSE, warnDuringRun |-> pr.consoleWarn,
              cwdDuringRun |-> pr.cwd, forwarded |-> <<>>]
        ELSE LET cwdToRestore == IF changes THEN Some(pr.cwd) ELSE None
                 entered == IF changes THEN [pr EXCEPT !.cwd = Val(cwd)] ELSE pr
             IN  IF SkipsJsDocument(filePath, configuration)
                 THEN [process |-> RestoreWorkingDirectory(entered, cwdToRestore),
                       threw |-> FALSE, result |-> EmptyResult,
                       analyzerInvoked |-> FALSE, warnDuringRun |-> entered.consoleWarn,
                       cwdDuringRun |-> entered.cwd, forwarded |-> <<>>]
                 ELSE LET originalConsoleWarn == entered.consoleWarn
                          capturing == [entered EXCEPT !.consoleWarn = "captureWarnings"]
                          captured == CaptureAll([warnings |-> warnings,
                                                  forwarded |-> <<>>],
                                                 analyzer.consoleWarnings)
                          released == RestoreConsoleWarn(capturing, originalConsoleWarn)
                      IN  [process |-> RestoreWorkingDirectory(released, cwdToRestore),
                           threw |-> analyzer.threw,
                           result |-> IF analyzer.threw THEN EmptyResult
                                      ELSE [lintResult |-> analyzer.lintResult,
                                            warnings |-> captured.warnings],
                           analyzerInvoked |-> TRUE,
                           warnDuringRun |-> capturing.consoleWarn,
                           cwdDuringRun |-> capturing.cwd,
                           forwarded |-> captured.forwarded]

\* runEsLint(filePath, contents, configuration).
RunEsLint(rn, pr, filePath, contents, configuration, env, analyzer) ==
    LET known == CacheHas(rn.document2LibraryCache, filePath)
        loaded == IF known THEN [runner |-> rn, warnings |-> <<>>]
                  ELSE LoadLibrary(rn, filePath, configuration, env)
    IN  IF ~CacheHas(loaded.runner.document2LibraryCache, filePath)
        THEN [runner |-> loaded.runner, process |-> pr, threw |-> FALSE,
              result |-> EmptyResult, analyzerInvoked |-> FALSE, required |-> <<>>,
              resolved |-> ~known, warnDuringRun |-> pr.consoleWarn,
              cwdDuringRun |-> pr.cwd, forwarded |-> <<>>]
        ELSE LET read == [loaded.runner EXCEPT !.document2LibraryCache =
                                                    CacheAfterGet(@, filePath)]
                 lib == LibraryOf(read,
                                  CacheGet(loaded.runner.document2LibraryCache, filePath),
                                  env)
             IN  IF ~IsSome(lib.library)
                 THEN [runner |-> lib.runner, process |-> pr, threw |-> FALSE,
                       result |-> [lintResult |-> EmptyLintResult,
                                   warnings |-> <<GetInstallFailureMessage(filePath,
                                                      PackageManagerOrNpm(
                                                          configuration.packageManager))>>],
                       analyzerInvoked |-> FALSE, required |-> lib.required,
                       resolved |-> ~known, warnDuringRun |-> pr.consoleWarn,
                       cwdDuringRun |-> pr.cwd, forwarded |-> <<>>]
                 ELSE LET run == DoRun(pr, filePath, contents, Val(lib.library),
                                       configuration, loaded.warnings, analyzer)
                      IN  [runner |-> lib.runner, process |-> run.process,
                           threw |-> run.threw, result |-> run.result,
                           analyzerInvoked |-> run.analyzerInvoked,
                           required |-> lib.required, resolved |-> ~known,
                           warnDuringRun |-> run.warnDuringRun,
                           cwdDuringRun |-> run.cwdDuringRun,
                           forwarded |-> run.forwarded]

----------------------------------------------------------------------------
(* The runner on its own: SpecRunner calls runEsLint up to MaxRuns times   *)
(* on one EsLintRunner, with the installs on disk and the behaviour of the *)
(* analyzer chosen anew for every call.                                    *)

TsFile == <<"/", "w", "/", "a", ".", "t", "s">>
DtsFile == <<"/", "w", "/", "a", ".", "d", ".", "t", "s">>
JsFile == <<"/", "w", "/", "b", ".", "j", "s">>
JsxFile == <<"/", "w", "/", "b", ".", "j", "s", "x">>
MjsFile == <<"/", "w", "/", "b", ".", "M", "J", "S">>
RunnerFiles == {TsFile, DtsFile, JsFile, JsxFile, MjsFile}

\* Exclusion patterns: a path relative to the workspace, an absolute path,
\* and a glob of one segment.
PatternRelative == <<"a", ".", "t", "s">>
PatternAbsolute == TsFile
PatternGlob == <<"*", ".", "j", "s">>

BaseConfiguration ==
    [jsEnable |-> FALSE, ignoreDefinitionFiles |-> FALSE, exclude |-> <<>>,
     nodePath |-> None, packageManager |-> None,
     workspaceFolderPath |-> Some(WorkspaceDir)]

\* The configurations of the calls: the base configuration with one setting
\* changed, and three with two settings changed.
RunConfigurations ==
    {BaseConfiguration}
    \cup { [BaseConfiguration EXCEPT !.jsEnable = TRUE] }
    \cup { [BaseConfiguration EXCEPT !.ignoreDefinitionFiles = TRUE] }
    \cup { [BaseConfiguration EXCEPT !.exclude = e] :
               e \in {<<PatternRelative>>, <<PatternAbsolute>>, <<PatternAbsolute, PatternGlob>>} }
    \cup { [BaseConfiguration EXCEPT !.nodePath = Some(d)] : d \in {MissingDir, NodeDir} }
    \cup { [BaseConfiguration EXCEPT !.packageManager = Some(pm)] : pm \in {"yarn", "pnpm"} }
    \cup { [BaseConfiguration EXCEPT !.workspaceFolderPath = w] : w \in {None, Some(OtherDir)} }
    \cup { [BaseConfiguration EXCEPT !.jsEnable = TRUE, !.exclude = <<PatternGlob>>,
                                     !.workspaceFolderPath = w] :
               w \in {None, Some(WorkspaceDir)} }
    \cup { [BaseConfiguration EXCEPT !.nodePath = Some(MissingDir),
                                     !.ignoreDefinitionFiles = TRUE] }

\* contents: the text of the file, or the program of the host.  It is read
\* only when no workspace folder is configured.
TextContents == [isProgram |-> FALSE, currentDirectory |-> <<>>]
ProgramContents == [isProgram |-> TRUE, currentDirectory |-> WorkspaceDir]
ContentsFor(configuration) ==
    IF IsSome(configuration.workspaceFolderPath) THEN {TextContents}
    ELSE {TextContents, ProgramContents}

\* What is installed when a call resolves and loads: a local and a global
\* install; a global install only; nothing; a local install that throws
\* when it is loaded.
Environments ==
    { [fromNodePath |-> PathLocal, fromDirectory |-> PathLocal, fromGlobal |-> PathGlobal,
       globalRoot |-> Some(GlobalDir), broken |-> {}],
      [fromNodePath |-> "", fromDirectory |-> "", fromGlobal |-> PathGlobal,
       globalRoot |-> Some(GlobalDir), broken |-> {}],
      [fromNodePath |-> "", fromDirectory |-> "", fromGlobal |-> "",
       globalRoot |-> Some(GlobalDir), broken |-> {}],
      [fromNodePath |-> PathLocal, fromDirectory |-> PathLocal, fromGlobal |-> PathGlobal,
       globalRoot |-> Some(GlobalDir), broken |-> {PathLocal}] }

\* What the analyzer does when invoked on filePath: it reports one error,
\* silently or after a console.warn, or it throws after a console.warn.
AnalyzerReport(filePath) ==
    [errorCount |-> 1, warningCount |-> 0,
     results |-> ReportFor(filePath, <<FixableAtA>>)]
AnalyzerOutcomes(filePath) ==
    { [threw |-> FALSE, consoleWarnings |-> <<>>, lintResult |-> AnalyzerReport(filePath)],
      [threw |-> FALSE, consoleWarnings |-> <<"deprecated">>,
       lintResult |-> AnalyzerReport(filePath)],
      [threw |-> TRUE, consoleWarnings |-> <<"deprecated">>, lintResult |-> EmptyLintResult] }

\* The analyzer of a call that does not invoke it: what it would have done
\* is no part of the call, so one analyzer, one that would warn and report
\* an error, stands for all of them.
AnalyzerNotInvoked(filePath) ==
    [threw |-> FALSE, consoleWarnings |-> <<"deprecated">>,
     lintResult |-> AnalyzerReport(filePath)]

InitRunner ==
    /\ config \in {c \in Configs : ~c.suppressWhileTypeErrorsPresent /\ c.ignoreDefinitionFiles}
    /\ codeFixActions = <<>>
    /\ request = Idle
    /\ response = Idle
    /\ runner = NewRunner
    /\ process = ProcessAtStart

\* runEsLint is called and runs to its end.
RunEsLintCall(filePath, contents, configuration, env, analyzer) ==
    LET r == RunEsLint(runner, process, filePath, contents, configuration, env, analyzer)
    IN  /\ request = Idle
        /\ process.runs < MaxRuns
        /\ r.analyzerInvoked \/ analyzer = AnalyzerNotInvoked(filePath)
        /\ request' = [op |-> "runEsLint", filePath |-> filePath, contents |-> contents,
                       configuration |-> configuration, env |-> env,
                       analyzer |-> analyzer, processBefore |-> process]
        /\ response' = [threw |-> r.threw, result |-> r.result,
                        analyzerInvoked |-> r.analyzerInvoked, required |-> r.required,
                        resolved |-> r.resolved, warnDuringRun |-> r.warnDuringRun,
                        cwdDuringRun |-> r.cwdDuringRun, forwarded |-> r.forwarded]
        /\ runner' = r.runner
        /\ process' = [r.process EXCEPT !.runs = @ + 1]
        /\ UNCHANGED <<config, codeFixActions>>

NextRunner ==
    \/ \E filePath \in RunnerFiles, configuration \in RunConfigurations, env \in Environments :
           \E contents \in ContentsFor(configuration), analyzer \in AnalyzerOutcomes(filePath) :
               RunEsLintCall(filePath, contents, configuration, env, analyzer)
    \/ ResponseTaken

SpecRunner == InitRunner /\ [][NextRunner]_vars

----------------------------------------------------------------------------
(* Properties of the runner, checked under SpecRunner.                     *)

\* A runEsLint call has just run to its end.
RunServed == request.op = "runEsLint"

\* The path the runner holds for the file of the call just served.
ResolvedPath == CacheGet(runner.document2LibraryCache, request.filePath)

\* The runner holds a loaded library for the file of the call just served.
LibraryLoaded ==
    /\ MapHas(runner.eslintPath2Library, ResolvedPath)
    /\ IsSome(runner.eslintPath2Library[ResolvedPath])

\* The workspace root of the call just served, given or derived.
WorkspaceRoot == WorkingDirectory(request.contents, request.configuration)

\* C13: after runEsLint returns or throws, the working directory of the
\* process is the one that was current before the call.
C13_WorkingDirectoryRestored ==
    RunServed => process.cwd = request.processBefore.cwd

\* The analyzer threw while the process was in a workspace root derived from
\* the program, and the process is back in the directory it came from.
C13_Witness ==
    /\ RunServed
    /\ response.threw
    /\ ~IsSome(request.configuration.workspaceFolderPath)
    /\ request.contents.isProgram
    /\ response.cwdDuringRun = WorkspaceDir
    /\ process.cwd = HomeDirectory

\* C14: after every analyzer invocation, whether it returned or threw,
\* console.warn is the function it was before the invocation.
C14_ConsoleWarnRestored ==
    RunServed => process.consoleWarn = request.processBefore.consoleWarn

\* The analyzer wrote a warning and threw while the capturing function was
\* installed, and console.warn is the original again.
C14_Witness ==
    /\ RunServed
    /\ response.analyzerInvoked
    /\ response.threw
    /\ request.analyzer.consoleWarnings # <<>>
    /\ response.warnDuringRun = "captureWarnings"
    /\ process.consoleWarn = "console.warn"

\* The runner rn has recorded that loading the library at path p threw.
FailureCached(rn, p) ==
    MapHas(rn.eslintPath2Library, p) /\ ~IsSome(rn.eslintPath2Library[p])

\* A step that serves a runEsLint call.
RunEsLintStep == request = Idle /\ request'.op = "runEsLint"

\* C15: once loading the library at a resolved path p has thrown, the
\* failure stays recorded, and every later runEsLint call whose file
\* resolves to p returns the empty lint result without loading p again.
C15_LoadFailureIsCached ==
    [][RunEsLintStep =>
          \A p \in DOMAIN runner.eslintPath2Library :
              FailureCached(runner, p) =>
                  /\ FailureCached(runner', p)
                  /\ CacheGet(runner'.document2LibraryCache, request'.filePath) = p =>
                         /\ ~response'.threw
                         /\ response'.result.lintResult = EmptyLintResult
                         /\ ~response'.analyzerInvoked
                         /\ p \notin SeqToSet(response'.required)]_vars

\* A call for a file seen for the first time that resolves to the local
\* install whose load threw earlier: the install loads by now, and the call
\* still returns empty without loading.
C15_Witness ==
    /\ RunServed
    /\ response.resolved
    /\ ResolvedPath = PathLocal
    /\ FailureCached(runner, PathLocal)
    /\ PathLocal \notin request.env.broken
    /\ response.required = <<>>
    /\ response.result.lintResult = EmptyLintResult

\* The install commands by package manager.
ExpectedLocalCommand(pm) ==
    CASE pm = "npm" -> "npm install eslint"
      [] pm = "pnpm" -> "pnpm install eslint"
      [] pm = "yarn" -> "yarn add eslint"
ExpectedGlobalCommand(pm) ==
    CASE pm = "npm" -> "npm install -g eslint"
      [] pm = "pnpm" -> "pnpm install -g eslint"
      [] pm = "yarn" -> "yarn global add eslint"

\* The package manager the configuration of the call names, npm when none.
ConfiguredPackageManager ==
    IF request.configuration.packageManager = None THEN "npm"
    ELSE request.configuration.packageManager[1]

ExcludedFile ==
    \/ /\ request.configuration.ignoreDefinitionFiles
       /\ request.filePath = DtsFile
    \/ \E i \in 1..Len(request.configuration.exclude) :
           \/ Minimatch(request.filePath, request.configuration.exclude[i])
           \/ /\ IsSome(WorkspaceRoot)
              /\ Minimatch(Relative(Val(WorkspaceRoot), request.filePath),
                           request.configuration.exclude[i])

\* The files with a JS suffix.
JsSuffixedFiles == {JsFile, JsxFile, MjsFile}

NodePathMissing ==
    /\ request.configuration.nodePath # None
    /\ request.configuration.nodePath[1] = MissingDir

\* The positions of the warnings about the ignored nodePath in the result.
NodePathWarnings ==
    { i \in 1..Len(response.result.warnings) :
          response.result.warnings[i].kind = "nodePathIgnored" }

\* C19: every runEsLint call whose configuration names a nodePath that does
\* not exist and that lints the file carries exactly one warning about the
\* ignored path in its result.
C19_EveryCallCarriesNodePathWarning ==
    (RunServed /\ NodePathMissing /\ response.analyzerInvoked /\ ~response.threw) =>
        Cardinality(NodePathWarnings) = 1

\* The warnings of the result that come from console.warn, in order.
CollectedConsoleWarnings ==
    LET console == SelectSeq(response.result.warnings, LAMBDA w : w.kind = "console")
    IN  [i \in 1..Len(console) |-> console[i].message]

\* C30 as stated: while the analyzer runs, a message it writes with
\* console.warn is appended to the warnings of the run and is not passed on
\* to the original console.warn.
C30_WarningsCollectedNotForwarded ==
    (RunServed /\ response.analyzerInvoked) =>
        /\ ~response.threw => CollectedConsoleWarnings = request.analyzer.consoleWarnings
        /\ response.forwarded = <<>>

\* C30 amended: such a message is appended to the warnings of the run and
\* is also passed on to the original console.warn; a run that does not
\* invoke the analyzer collects and passes on nothing.
C30_WarningsCollectedAndForwarded ==
    RunServed =>
        IF response.analyzerInvoked
        THEN /\ ~response.threw =>
                    CollectedConsoleWarnings = request.analyzer.consoleWarnings
             /\ response.forwarded = request.analyzer.consoleWarnings
        ELSE /\ ~response.threw => CollectedConsoleWarnings = <<>>
             /\ response.forwarded = <<>>

\* The analyzer warned and returned: the message is in the warnings of the
\* result and reached the original console.warn.
C30_Witness ==
    /\ RunServed
    /\ response.analyzerInvoked
    /\ ~response.threw
    /\ request.analyzer.consoleWarnings = <<"deprecated">>
    /\ CollectedConsoleWarnings = <<"deprecated">>
    /\ response.forwarded = <<"deprecated">>

----------------------------------------------------------------------------
(* The step of getSemanticDiagnostics for one finding, as a function of    *)
(* the configuration, the text of the file and the finding: makeDiagnostic *)
(* and recordCodeAction.  SpecSpan draws the three in its first state and  *)
(* applies the step once; the host then asks for the code fixes at the     *)
(* span of the Problem.                                                    *)

\* Largest line and endLine a finding reports (the texts have up to three
\* lines), and largest column and endColumn (the lines have up to three
\* characters).
MaxLine == 4
MaxColumn == 4

\* The files of SpecSpan: one of two lines and one of three.
SpanFiles == {FileTs, FileLines}

\* eslint.Linter.LintMessage.severity: 0 (off), 1 (warn) or 2 (error).
Severities == {0, 1, 2}

\* fix: absent, one replacement, an empty list, a list of one replacement.
SpanFixes == {NoFix, ObjectFix(0, 1), ArrayFix(<<>>), ArrayFix(<<Rep(0, 1)>>)}

\* line and endLine (0: absent), column and endColumn (None: absent).
SpanLines == 0..MaxLine
SpanColumns == {None} \cup {Some(c) : c \in 0..MaxColumn}

SpanFindings ==
    { [Finding(Some(RuleSemi), line, column, endLine, endColumn, fix)
           EXCEPT !.severity = severity] :
          line \in SpanLines, column \in SpanColumns,
          endLine \in SpanLines, endColumn \in SpanColumns,
          severity \in Severities, fix \in SpanFixes }

\* The three values of alwaysShowRuleFailuresAsWarnings.
SpanConfigs ==
    [suppressWhileTypeErrorsPresent : {FALSE},
     ignoreDefinitionFiles : {FALSE},
     alwaysShowRuleFailuresAsWarnings : {None, Some(TRUE), Some(FALSE)}]

InitSpan ==
    /\ config \in SpanConfigs
    /\ codeFixActions = <<>>
    /\ request \in { [op |-> "lintMessage", file |-> GetSourceFile(fileName),
                      failure |-> failure] :
                         fileName \in SpanFiles, failure \in SpanFindings }
    /\ response = Idle
    /\ runner = NewRunner
    /\ process = ProcessAtStart

\* The body of the loop over eslintProblems for the finding: the diagnostic
\* is pushed and the Problem is recorded in the cleared Registry.
RecordFinding ==
    LET r == RecordProblems(config, request.file, <<request.failure>>,
                 [cfa |-> ClearRegistry(codeFixActions, request.file.fileName),
                  diagnostics |-> <<>>, registered |-> <<>>])
    IN  /\ request.op = "lintMessage"
        /\ response = Idle
        /\ response' = [op |-> "recorded", diagnostics |-> r.diagnostics,
                        span |-> GetTextSpan(request.file, request.failure)]
        /\ codeFixActions' = r.cfa
        /\ UNCHANGED <<config, request, runner, process>>

\* The host asks for the code fixes at the span of a registered Problem.
CodeFixesAtRegisteredSpan ==
    \E fileName \in SpanFiles :
        /\ HasRegistry(codeFixActions, fileName)
        /\ \E i \in 1..Len(codeFixActions[fileName]) :
               CodeFixesRequest(fileName, codeFixActions[fileName][i].key[2],
                                codeFixActions[fileName][i].key[4], <<>>, TRUE)

NextSpan ==
    \/ RecordFinding
    \/ ResponseTaken
    \/ CodeFixesAtRegisteredSpan

SpecSpan == InitSpan /\ [][NextSpan]_vars

----------------------------------------------------------------------------
(* Properties of the step for one finding, checked under SpecSpan.         *)

Recorded == request.op = "lintMessage" /\ response # Idle

\* The number of lines of the file of the request.
LineCount == Len(request.file.lineStarts)

\* The offsets of the snapshot: 0 up to its length.
SnapshotOffsets == 0..Len(request.file.text)

\* C21: for every finding, whatever line and column the analyzer reports
\* (a line beyond the last one, a column beyond the end of the line, column
\* 0, no column), the start and the end of the span the position mapper
\* resolves lie between 0 and the length of the snapshot.
C21_OffsetsWithinSnapshot ==
    Recorded =>
        /\ response.span.start \in SnapshotOffsets
        /\ response.span.end \in SnapshotOffsets

\* C22: a finding on a line L between 1 and the line count at column 1 maps
\* to the entry of L in the line-start table, and when its endLine is a
\* later line of the file at endColumn 1 the end maps to that line's entry,
\* a strictly larger offset.
C22_ColumnOneMapsToLineStart ==
    (Recorded /\ request.failure.line \in 1..LineCount
              /\ request.failure.column = Some(1)) =>
        /\ response.span.start = request.file.lineStarts[request.failure.line]
        /\ (/\ request.failure.endLine \in 1..LineCount
            /\ request.failure.endColumn = Some(1)
            /\ request.failure.line < request.failure.endLine) =>
               /\ response.span.end = request.file.lineStarts[request.failure.endLine]
               /\ response.span.start < response.span.end

\* A finding on the first line ending on the third, both at column 1, in the
\* text of three lines: offsets 0 and 3.
C22_Witness ==
    /\ Recorded
    /\ request.file.text = ThreeLineText
    /\ request.failure.line = 1 /\ request.failure.column = Some(1)
    /\ request.failure.endLine = 3 /\ request.failure.endColumn = Some(1)
    /\ response.span.start = 0 /\ response.span.end = 3

\* C23: with alwaysShowRuleFailuresAsWarnings true or unset the diagnostic
\* of every finding is a warning whatever its severity; with the option
\* false a finding of severity 2 gives an error and one of any other
\* severity a warning.
C23_SeverityResolution ==
    Recorded =>
        /\ Len(response.diagnostics) = 1
        /\ (config.alwaysShowRuleFailuresAsWarnings \in {None, Some(TRUE)}) =>
               response.diagnostics[1].category = "Warning"
        /\ (config.alwaysShowRuleFailuresAsWarnings = Some(FALSE)
            /\ request.failure.severity = 2) =>
               response.diagnostics[1].category = "Error"
        /\ (config.alwaysShowRuleFailuresAsWarnings = Some(FALSE)
            /\ request.failure.severity # 2) =>
               response.diagnostics[1].category = "Warning"

\* A finding of severity 2 reported as an error, the option being false.
C23_Witness ==
    /\ Recorded
    /\ config.alwaysShowRuleFailuresAsWarnings = Some(FALSE)
    /\ request.failure.severity = 2
    /\ response.diagnostics[1].category = "Error"

\* The Problems of the Registry of the file of the request.
RecordedProblems ==
    IF HasRegistry(codeFixActions, request.file.fileName)
    THEN SeqToSet(PMValues(codeFixActions[request.file.fileName]))
    ELSE {}

\* C24: the Problem registered for a finding has fixable false when the
\* finding has no fix or a fix that is an empty list of replacements, and
\* fixable true when its fix holds at least one replacement.
C24_FixableIffSomeReplacement ==
    Recorded =>
        /\ Cardinality(RecordedProblems) = 1
        /\ \A problem \in RecordedProblems :
               /\ problem.failure = request.failure
               /\ problem.fixable =
                      (/\ request.failure.fix.kind # "none"
                       /\ Len(request.failure.fix.reps) >= 1)

\* A finding whose fix is the empty list, registered as not fixable.
C24_Witness ==
    /\ Recorded
    /\ request.failure.fix = ArrayFix(<<>>)
    /\ \E problem \in RecordedProblems : ~problem.fixable

----------------------------------------------------------------------------
(* src/index.ts and ESLintPlugin.decorate: the host asks the plugin entry  *)
(* for the language service of a project.                                  *)

\* Largest number of overlays installed in one process.
MaxCreates == 2

\* A language service, by what a call on it passes through: the number of
\* overlays its three intercepted operations run, the number of overlays
\* its other operations run, and what reading the marker key gives.
HostLanguageService(project) ==
    [project |-> project, marker |-> FALSE, intercepted |-> 0, others |-> 0]

\* new Proxy(languageService, {get}): the marker reads true, the three
\* intercepted operations run the overlay and then the target's operation,
\* every other property is the target's.
NewProxy(languageService) ==
    [languageService EXCEPT !.marker = TRUE, !.intercepted = @ + 1]

\* decorate(languageService): None is undefined.
Decorate(typescript, languageService) ==
    IF languageService.marker
    THEN [service |-> None, typescript |-> typescript]
    ELSE [service |-> Some(NewProxy(languageService)),
          typescript |-> [typescript EXCEPT
                              !.supportedCodeFixes = Append(@, "ESLINT_ERROR_CODE")]]

IsValidTypeScriptVersion(typescript) == typescript.major >= 3

\* create(info) of the plugin entry.
Create(typescript, info) ==
    IF ~IsValidTypeScriptVersion(typescript)
    THEN [service |-> Some(info.languageService), typescript |-> typescript,
          config |-> info.config, decorated |-> FALSE]
    ELSE LET d == Decorate(typescript, info.languageService)
         IN  [service |-> d.service, typescript |-> d.typescript,
              config |-> info.config, decorated |-> TRUE]

\* The services a host passes to create: the service of one of three
\* projects, as the host built it or as an earlier create returned it.
Projects == {"p1", "p2", "p3"}
LanguageServices ==
    {HostLanguageService(p) : p \in Projects}
        \cup {NewProxy(HostLanguageService(p)) : p \in Projects}

PluginCreateInfos == [languageService : LanguageServices, config : Configs]

TypeScriptMajors == {2, 3, 4}

InitCreate ==
    /\ config \in Configs
    /\ codeFixActions = <<>>
    /\ request = Idle
    /\ response = Idle
    /\ runner = NewRunner
    /\ process \in {[ProcessAtStart EXCEPT !.typescript.major = major] :
                        major \in TypeScriptMajors}

\* The host calls create(info); a plugin built by the call starts with an
\* empty codeFixActions map.
CreateCall(info) ==
    LET r == Create(process.typescript, info)
    IN  /\ request = Idle
        /\ Len(process.typescript.supportedCodeFixes) < MaxCreates
        /\ request' = [op |-> "create", info |-> info]
        /\ response' = [service |-> r.service, decorated |-> r.decorated]
        /\ config' = r.config
        /\ codeFixActions' = <<>>
        /\ process' = [process EXCEPT !.typescript = r.typescript]
        /\ UNCHANGED runner

NextCreate ==
    \/ \E info \in PluginCreateInfos : CreateCall(info)
    \/ ResponseTaken

SpecCreate == InitCreate /\ [][NextCreate]_vars

Created == request # Idle /\ request.op = "create"

\* C25: a create call for a language service that is already decorated
\* returns a service, and that service is wrapped exactly once: its three
\* intercepted operations run one overlay and its other operations none.
C25_DecoratingTwiceReturnsServiceWrappedOnce ==
    (Created /\ request.info.languageService.marker) =>
        /\ IsSome(response.service)
        /\ Val(response.service).intercepted = 1
        /\ Val(response.service).others = 0

----------------------------------------------------------------------------
(* The Resolution Cache of one runner over many files: SpecCache calls     *)
(* runEsLint on a new file, or again on the first file, with the library   *)
(* installed in the workspace.                                             *)

\* Largest number of distinct file paths passed to one runner.
MaxFilePaths == 102

\* The n-th file of the workspace: "/w/f000.ts", "/w/f001.ts", ...
DecimalDigits == <<"0", "1", "2", "3", "4", "5", "6", "7", "8", "9">>
FilePath(n) ==
    WorkspaceDir \o <<"/", "f", DecimalDigits[((n \div 100) % 10) + 1],
                      DecimalDigits[((n \div 10) % 10) + 1], DecimalDigits[(n % 10) + 1],
                      ".", "t", "s">>

\* The file the host comes back to.
RevisitedFile == FilePath(1)

\* A local and a global install, both loading.
InstalledEnvironment ==
    [fromNodePath |-> PathLocal, fromDirectory |-> PathLocal, fromGlobal |-> PathGlobal,
     globalRoot |-> Some(GlobalDir), broken |-> {}]

\* The analyzer returns its report.
CompletedOutcomes(filePath) == {a \in AnalyzerOutcomes(filePath) : ~a.threw}

\* The files passed to runEsLint so far, from the one whose last call is the
\* oldest to the one of the last call.
UsedAfter(used, filePath) ==
    Append(SelectSeq(used, LAMBDA f : f # filePath), filePath)

InitCache ==
    /\ config \in {c \in Configs : ~c.suppressWhileTypeErrorsPresent /\ c.ignoreDefinitionFiles}
    /\ codeFixActions = <<>>
    /\ request = [op |-> "none", used |-> <<>>]
    /\ response = Idle
    /\ runner = NewRunner
    /\ process = ProcessAtStart

\* runEsLint(filePath, contents, configuration) runs to its end.
RunEsLintOnPath(filePath, analyzer) ==
    LET r == RunEsLint(runner, process, filePath, TextContents, BaseConfiguration,
                       InstalledEnvironment, analyzer)
    IN  /\ request' = [op |-> "runEsLint", filePath |-> filePath,
                       analyzer |-> analyzer, cacheBefore |-> runner.document2LibraryCache,
                       used |-> UsedAfter(request.used, filePath)]
        /\ response' = [threw |-> r.threw, result |-> r.result,
                        analyzerInvoked |-> r.analyzerInvoked, resolved |-> r.resolved]
        /\ runner' = r.runner
        /\ process' = r.process
        /\ UNCHANGED <<config, codeFixActions>>

\* A file no call has named yet.
RunEsLintOnNewPath ==
    /\ Len(request.used) < MaxFilePaths
    /\ \E analyzer \in CompletedOutcomes(FilePath(Len(request.used) + 1)) :
           RunEsLintOnPath(FilePath(Len(request.used) + 1), analyzer)

\* The first file again.
RunEsLintOnRevisitedPath ==
    /\ request.used # <<>>
    /\ \E analyzer \in CompletedOutcomes(RevisitedFile) :
           RunEsLintOnPath(RevisitedFile, analyzer)

NextCache ==
    \/ RunEsLintOnNewPath
    \/ RunEsLintOnRevisitedPath

SpecCache == InitCache /\ [][NextCache]_vars

\* The last n elements of a sequence (all of them when it has fewer).
LastOf(seq, n) ==
    IF Len(seq) <= n THEN seq ELSE SubSeq(seq, Len(seq) - n + 1, Len(seq))

\* C26: after any sequence of runEsLint calls the Resolution Cache holds at
\* most 100 entries, and they are the entries of the files used most
\* recently: a call that overflows the cache evicts the entry of the file
\* whose last call is the oldest.
C26_AtMostHundredMostRecentlyUsed ==
    /\ Len(runner.document2LibraryCache.entries) <= 100
    /\ CacheKeys(runner.document2LibraryCache) = SeqToSet(LastOf(request.used, 100))
    /\ Cardinality(CacheKeys(runner.document2LibraryCache))
           = Len(runner.document2LibraryCache.entries)

\* The cache was full, the first file had been used again, and the call for
\* a new file evicted the second file and kept the first.
C26_Witness ==
    /\ request.op = "runEsLint"
    /\ Len(request.cacheBefore.entries) = 100
    /\ ~CacheHas(request.cacheBefore, request.filePath)
    /\ CacheHas(request.cacheBefore, FilePath(2))
    /\ ~CacheHas(runner.document2LibraryCache, FilePath(2))
    /\ CacheHas(runner.document2LibraryCache, RevisitedFile)
    /\ CacheHas(runner.document2LibraryCache, request.filePath)

----------------------------------------------------------------------------
(* The actions a code-fix request adds and their order, checked under      *)
(* Spec.                                                                   *)

\* The fix names of the actions the request added after the host's fixes.
OverlayFixNames ==
    [i \in 1..(Len(response.fixes) - Len(request.hostFixes)) |->
        response.fixes[Len(request.hostFixes) + i].fixName]

\* The fix names of the three overlay actions for a rule.
SingleFixName(r) == <<"eslint:", r>>
AutoFixAllName == <<"eslint:fix-all">>
DisableRuleName(r) == <<"eslint:disable:", r>>

\* The request found a Problem with a rule id at the exact span.
AtProblemWithRule ==
    /\ CodeFixConsultsRegistry
    /\ \E p \in ProblemsAtRequestedSpan : RuleIdIsTruthy(p.failure.ruleId)

\* The request found a Problem without a rule id at the exact span.
AtProblemWithoutRule ==
    /\ CodeFixConsultsRegistry
    /\ \E p \in ProblemsAtRequestedSpan : ~RuleIdIsTruthy(p.failure.ruleId)

RequestedProblem == CHOOSE p \in ProblemsAtRequestedSpan : TRUE

\* C28 as stated: a code-fix request that finds a Problem with a rule id at
\* the exact span returns the host's fixes followed, in this order, by the
\* single-instance fix (only when the Problem is fixable), the fix of all
\* auto-fixable failures (always) and the disable-rule action; a Problem
\* without a rule id adds no action.
C28_FixAllAutoFixableAlwaysAppended ==
    /\ (AtProblemWithRule /\ ~response.threw) =>
           /\ SubSeq(response.fixes, 1, Len(request.hostFixes)) = request.hostFixes
           /\ OverlayFixNames =
                  (IF RequestedProblem.fixable
                   THEN <<SingleFixName(RequestedRule)>> ELSE <<>>)
                      \o <<AutoFixAllName, DisableRuleName(RequestedRule)>>
    /\ AtProblemWithoutRule => (~response.threw /\ response.fixes = request.hostFixes)

\* C28 amended: such a request returns the host's fixes followed by the
\* single-instance fix, the fix of all auto-fixable failures and the
\* disable-rule action, in this order, when the Problem is fixable, and by
\* the disable-rule action alone when it is not; a Problem without a rule
\* id adds no action.  When a fixable Problem of the rule carries a list fix
\* the request for a fixable Problem fails instead (C3).
C28_FixAllAutoFixableOnlyWhenFixable ==
    /\ AtProblemWithRule =>
           IF RequestedProblem.fixable /\ HasListFix(FixableOfRule(RequestedRule))
           THEN response.threw
           ELSE /\ ~response.threw
                /\ SubSeq(response.fixes, 1, Len(request.hostFixes)) = request.hostFixes
                /\ OverlayFixNames =
                       IF RequestedProblem.fixable
                       THEN <<SingleFixName(RequestedRule), AutoFixAllName,
                              DisableRuleName(RequestedRule)>>
                       ELSE <<DisableRuleName(RequestedRule)>>
    /\ AtProblemWithoutRule => (~response.threw /\ response.fixes = request.hostFixes)

\* A request at the span of a Problem with a rule id and no fix, the host
\* having a fix of its own: the host's fix and the disable-rule action.
C28_Witness ==
    /\ AtProblemWithRule
    /\ ~RequestedProblem.fixable
    /\ request.hostFixes # <<>>
    /\ Len(response.fixes) = Len(request.hostFixes) + 1
    /\ OverlayFixNames = <<DisableRuleName(RequestedRule)>>

----------------------------------------------------------------------------
(* The disable-rule action, checked under SpecSpan.                        *)

\* The disable-rule action of the result: the last action.
DisableRuleAction == response.fixes[Len(response.fixes)]

\* The line of the file the finding of the requested Problem is on: the
\* reported line, or the last line when the reported line lies beyond it.
FindingLine ==
    LET reported == RequestedProblem.failure.line
        count == Len(GetSourceFile(request.fileName).lineStarts)
    IN  IF reported > count THEN count ELSE reported

\* The text of a line of the requested file, up to the start of the next.
LineText(line) ==
    LET file == GetSourceFile(request.fileName)
        from == file.lineStarts[line]
        to == IF line < Len(file.lineStarts) THEN file.lineStarts[line + 1] ELSE file.end
    IN  SubSeq(file.text, from + 1, to)

\* C29: for every registered finding that reports a line, beyond the last
\* line of the file or not, the disable-rule action of a code-fix request
\* with a snapshot is one insertion of length zero at the start offset of
\* the finding's line in the line-start table, and its text begins with the
\* leading spaces and tabs of that line.
C29_DisableRuleInsertsAtLineStart ==
    ( /\ AtProblemWithRule
      /\ request.hasSnapshot
      /\ ~response.threw
      /\ RequestedProblem.failure.line >= 1 ) =>
        /\ Len(response.fixes) >= 1
        /\ DisableRuleAction.fixName = DisableRuleName(RequestedRule)
        /\ Len(DisableRuleAction.changes) = 1
        /\ Len(DisableRuleAction.changes[1].textChanges) = 1
        /\ LET change == DisableRuleAction.changes[1].textChanges[1]
               file == GetSourceFile(request.fileName)
           IN  /\ change.span.length = 0
               /\ change.span.start = Some(file.lineStarts[FindingLine])
               /\ change.newText[1] = LeadingSpace(LineText(FindingLine))

----------------------------------------------------------------------------
(* SpecNames: diagnostics and code-fix requests for a file the host asks   *)
(* about under two names, the one its source file carries (FileTs) and     *)
(* another one that resolves to the same source file (FileAsOpened).       *)

NamedFiles == {FileTs, FileAsOpened}

\* The runs of SpecNames: the analyzer reports up to MaxMessages findings
\* under the path it was given.
NamedRunOutcomes(fileName) ==
    { RunResult(ReportFor(fileName, m), <<>>, FALSE) : m \in MessageLists }

InitNames ==
    /\ config \in {c \in Configs : ~c.suppressWhileTypeErrorsPresent /\ c.ignoreDefinitionFiles}
    /\ codeFixActions = <<>>
    /\ request = Idle
    /\ response = Idle
    /\ runner = NewRunner
    /\ process = ProcessAtStart

NextNames ==
    \/ \E f \in NamedFiles : \E run \in NamedRunOutcomes(f) :
           SemanticDiagnosticsRequest(f, <<>>, run)
    \/ \E f \in NamedFiles, span \in RequestSpans :
           CodeFixesRequest(f, span[1], span[2], <<>>, TRUE)
    \/ ResponseTaken

SpecNames == InitNames /\ [][NextNames]_vars

----------------------------------------------------------------------------
(* Properties of the Registry keys, checked under SpecNames.               *)

\* The Registry of a file, EmptyProblemMap when the file has none.
RegistryOf(cfa, fileName) ==
    IF HasRegistry(cfa, fileName) THEN cfa[fileName] ELSE EmptyProblemMap

\* C33: a diagnostics request for file f leaves the Registry of every other
\* file g as it was, and the Problems it records are under the key of f: a
\* later code-fix lookup for f at the span of a recorded Problem finds one.
C33_TouchesOnlyOwnRegistry ==
    [][DiagnosticsServed =>
          /\ \A g \in (DOMAIN codeFixActions \cup DOMAIN codeFixActions') \ {request'.fileName} :
                 RegistryOf(codeFixActions', g) = RegistryOf(codeFixActions, g)
          /\ \A i \in 1..Len(response'.registered) :
                 LET span == GetTextSpan(GetSourceFile(request'.fileName),
                                         response'.registered[i].failure)
                 IN  IsSome(LookupProblem(codeFixActions', request'.fileName,
                                          span.start, span.end))]_vars

----------------------------------------------------------------------------
(* The edits of the rule-scoped fix-all, checked under SpecFixes.          *)

\* The rule-scoped "fix all" actions among the fixes of a code-fix result.
RuleFixAllActions ==
    { i \in 1..Len(response.fixes) :
          /\ Len(response.fixes[i].fixName) = 2
          /\ response.fixes[i].fixName[1] = "eslint:fix-all:" }

\* The text changes of a list of file changes, in order.
RECURSIVE EditList(_)
EditList(changes) ==
    IF changes = <<>> THEN <<>>
    ELSE Head(changes).textChanges \o EditList(Tail(changes))

\* Two edits replace a character in common.
EditsOverlap(a, b) ==
    /\ a.span.start < b.span.start + b.span.length
    /\ b.span.start < a.span.start + a.span.length

PairwiseApart(edits) ==
    \A i \in 1..Len(edits) : \A j \in (i + 1)..Len(edits) : ~EditsOverlap(edits[i], edits[j])

\* C32: whatever the Registry holds, the edits of the rule-scoped "fix all"
\* action are pairwise non-overlapping, in the fixes of a code-fix request
\* and in the changes of a combined-fix request.
C32_RuleFixAllEditsNeverOverlap ==
    /\ (request.op = "getCodeFixesAtPosition" /\ ~response.threw) =>
           \A i \in RuleFixAllActions : PairwiseApart(EditList(response.fixes[i].changes))
    /\ (request.op = "getCombinedCodeFix" /\ ~response.threw /\ ~response.delegated) =>
           PairwiseApart(EditList(response.changes))

----------------------------------------------------------------------------
(* Published spans and Registry keys, checked under SpecNames.             *)

\* A diagnostics pass has run the analyzer and published its findings.
PassSucceeded == request.op = "getSemanticDiagnostics" /\ response.path = "linted"

\* The diagnostics makeDiagnostic built in this pass: the last ones of the
\* result, one per finding of the requested file.
LintDiagnostics ==
    LET n == Len(response.registered)
        all == response.diagnostics
    IN  SubSeq(all, Len(all) - n + 1, Len(all))

\* The last finding of the pass published with the span of the i-th one.
LastWithSpanOf(i) ==
    CHOOSE k \in i..Len(LintDiagnostics) :
        /\ LintDiagnostics[k].start = LintDiagnostics[i].start
        /\ LintDiagnostics[k].length = LintDiagnostics[i].length
        /\ \A m \in (k + 1)..Len(LintDiagnostics) :
               \/ LintDiagnostics[m].start # LintDiagnostics[i].start
               \/ LintDiagnostics[m].length # LintDiagnostics[i].length

\* C31: after a successful diagnostics pass for a file, one lint diagnostic
\* is published per finding, and a lookup in the Registry of the file at
\* (start, start + length) of each of them finds a Problem: the one of the
\* last finding published with that span.
C31_PublishedSpanFindsProblem ==
    PassSucceeded =>
        /\ Len(response.registered) =
               Len(FilterProblemsForFile(request.fileName, request.run.lintResult))
        /\ \A i \in 1..Len(LintDiagnostics) :
               LET d == LintDiagnostics[i]
               IN  LookupProblem(codeFixActions, request.fileName,
                                 d.start, d.start + d.length)
                       = Some(response.registered[LastWithSpanOf(i)])

\* Two findings of one pass were published with the same span.
TwoFindingsOnOneSpan ==
    /\ PassSucceeded
    /\ \E i \in 1..Len(LintDiagnostics) :
           /\ LastWithSpanOf(i) # i
           /\ response.registered[LastWithSpanOf(i)] # response.registered[i]

====
